---- MODULE Spec2Model ----
(***************************************************************************)
(* A model of the MISR processing core (src/processing_core): the batch    *)
(* orchestrator BatchProcessor, the region search and subset extraction of *)
(* Reprojector, and the summary aggregation.                               *)
(*                                                                         *)
(* Three specifications share the module:                                  *)
(*   Spec         process_batch driving process_single_file over a list of *)
(*                files, one action per pipeline step;                     *)
(*   SpecSummary  get_processing_summary applied to arbitrary result lists;*)
(*   SpecRegion   find_region_bounds and extract_subset applied to         *)
(*                arbitrary small coordinate grids.                        *)
(* The variables of the specifications not running stay parked at their    *)
(* initial value.                                                          *)
(*                                                                         *)
(* Numbers.  Progress fractions are the code's floats 0.0, 0.1, ..., 1.0;  *)
(* they are modelled in tenths (0..10).  A batch-level fraction            *)
(* (i + progress) / total_files is the rational num/den with               *)
(* num = 10*i + tenths and den = 10*total_files.  Coordinates are small    *)
(* integers, with NaN a value of its own for which every comparison is     *)
(* false, as in IEEE arithmetic.                                           *)
(***************************************************************************)
EXTENDS Integers, Sequences, FiniteSets, TLC

VARIABLES
    \* ---- BatchProcessor (Spec) ----
    config,        \* self.config: the ProcessingConfig in force
    geometries,    \* self.clipper.geometries is loaded (truthy)
    filepaths,     \* the argument of process_batch
    has_callback,  \* process_batch was given a progress_callback
    pc,            \* where process_batch / process_single_file stands
    i,             \* the loop index of process_batch (0-based)
    result,        \* process_single_file's ProcessingResult under construction
    results,       \* process_batch's result list
    bounds,        \* the region bounds found for the current file
    reprojected_ds,\* the dataset reprojection produced for the current file
    steps,         \* history: the pipeline steps entered for the current file
    progress,      \* history: the fractions given to file_progress, current file
    batch_calls,   \* history: the calls forwarded to the batch-level callback
    faulted,       \* history: the fault or domain-empty result of the current file
    crashed,       \* an exception left process_single_file and process_batch
    loader,        \* the current file's DataLoader: which dataset handles are open
    red_subset,    \* the value subset of the current file
    qa_data,       \* the quality array the current file's quality dataset holds
    overlap,       \* history: how check_overlap ended for the current file
    \* ---- get_processing_summary (SpecSummary) ----
    sum_results,   \* the argument of get_processing_summary
    summary,       \* its return value
    \* ---- Reprojector (SpecRegion) ----
    lat_grid,      \* the coordinate grid: rows, cols and the latitude per cell
    lon_grid,      \* the longitude per cell (same shape)
    target,        \* self.target_lat, self.target_lon, self.region_margin
    scale_factor,  \* self.scale_factor
    rpc,           \* where the region run stands
    found,         \* what find_region_bounds returned
    red_shape,     \* the shape of the value grid handed to extract_subset
    subset,        \* what extract_subset returned
    \* ---- QAFilter (SpecQA) ----
    enabled_filters, \* self.enabled_filters
    custom_flags,  \* self.custom_flags
    qpc,           \* where the filter run stands
    qa_arg,        \* the quality array given to the method called
    data_arg,      \* the data array given to apply_qa_filter
    masked,        \* what create_quality_mask returned
    applied,       \* what apply_qa_filter returned and left of its argument
    qa_call,       \* history: the last method called on the filter
    \* ---- Reprojector.reproject_to_wgs84 and Clipper (SpecGrid) ----
    gpc,           \* where the grid run stands
    reproject_args,\* lat_fine_grid, lon_fine_grid and red_subset
    polygons,      \* self.geometries of the Clipper
    result_ds,     \* what reproject_to_wgs84 returned
    interpolated,  \* history: the array griddata returned
    overlap_result,\* what check_overlap returned
    clipped_ds,    \* what clip_xarray_dataset returned
    \* ---- BatchProcessor.validate_inputs (SpecValidate) ----
    vpc,           \* where the validation run stands
    validate_args, \* the paths given, and the files, directory and shapefile found
    validation_results, \* what validate_inputs returned
    \* ---- BatchProcessor.update_config (SpecConfig) ----
    processor,     \* the BatchProcessor: config, reprojector, filters, geometries
    file_run,      \* the last file processed: its configuration and clipping
    \* ---- MISRProcessingAdapter.process_batch and its worker (SpecAdapter) ----
    hpc,           \* where the adapter's call stands
    hdf_args,      \* files and whether a progress callback was given
    worker_result, \* the worker's exit code and the output file it wrote
    hdf_out,       \* what process_batch returned, or the exception it raised
    hdf_calls,     \* history: the calls made to the progress callback
    \* ---- MainWindow: starting and finishing a batch (SpecUI) ----
    is_processing, \* self.is_processing
    threads,       \* the worker threads started, in order: where each stands
    after_queue,   \* the callbacks handed to root.after(0, ...), oldest first
    dialogs,       \* the message boxes open, the innermost last
    start_call     \* history: the last call of _start_processing

fileVars == <<loader, red_subset, qa_data, overlap>>
batchVars == <<config, geometries, filepaths, has_callback, pc, i, result, results,
               bounds, reprojected_ds, steps, progress, batch_calls, faulted, crashed,
               fileVars>>
summaryVars == <<sum_results, summary>>
regionVars == <<lat_grid, lon_grid, target, scale_factor, rpc, found, red_shape, subset>>
qaVars == <<enabled_filters, custom_flags, qpc, qa_arg, data_arg, masked, applied,
           qa_call>>
gridVars == <<gpc, reproject_args, polygons, result_ds, interpolated, overlap_result,
             clipped_ds>>
validateVars == <<vpc, validate_args, validation_results>>
configVars == <<processor, file_run>>
hdfVars == <<hpc, hdf_args, worker_result, hdf_out, hdf_calls>>
uiVars == <<is_processing, threads, after_queue, dialogs, start_call>>
deskVars == <<hdfVars, uiVars>>
moreVars == <<validateVars, configVars, deskVars>>
vars == <<batchVars, summaryVars, regionVars, qaVars, gridVars, moreVars>>

(***************************************************************************)
(* Bounds of the model.                                                    *)
(***************************************************************************)
MaxFiles == 2
MaxResults == 3
MaxElapsed == 1
MaxCells == 4
MaxFilters == 2
MaxSide == 2
MaxBatches == 2

\* Python's None, for the optional strings.
None == "<None>"

\* The elements of a sequence.
Range(s) == {s[k] : k \in DOMAIN s}

RECURSIVE SeqsUpTo(_, _)
\* Every sequence over S of length at most n.
SeqsUpTo(S, n) ==
    IF n = 0 THEN {<<>>}
    ELSE LET shorter == SeqsUpTo(S, n - 1)
         IN  shorter \cup {Append(s, x) : s \in {t \in shorter : Len(t) = n - 1}, x \in S}

(***************************************************************************)
(* ProcessingConfig and ProcessingResult                                   *)
(***************************************************************************)
\* The options of ProcessingConfig the orchestrator branches on.
ProcessingConfig ==
    [validate_inputs : BOOLEAN, enable_qa_filtering : BOOLEAN,
     enable_clipping : BOOLEAN, shapefile_path : BOOLEAN,
     export_netcdf : BOOLEAN, export_geotiff : BOOLEAN]

\* BatchProcessor.__init__: the shapefile is loaded when clipping is enabled
\* and a path is given (load_shapefile raises, so that no processor exists,
\* when it yields no geometry).
InitGeometries(cfg) == cfg.enable_clipping /\ cfg.shapefile_path

\* ProcessingResult(input_file=filepath, success=False): the dataclass defaults.
\* processing_time, a wall-clock difference no step reads, is kept only in
\* the result lists of SpecSummary.
NewResult(filepath) ==
    [input_file |-> filepath, success |-> FALSE, output_files |-> {},
     error_message |-> None, metadata |-> {}]

\* The input paths of the model: process_batch is given the first n of them.
AllPaths == <<"a.nc", "b.hdf", "c.nc", "d.hdf">>
PathLists ==
    {SubSeq(AllPaths, 1, n) : n \in 0..(IF MaxFiles < Len(AllPaths) THEN MaxFiles
                                        ELSE Len(AllPaths))}


\* Path(filepath).stem
Stem(p) ==
    CASE p = "a.nc" -> "a" [] p = "b.hdf" -> "b" [] p = "c.nc" -> "c" [] p = "d.hdf" -> "d"

(***************************************************************************)
(* The fractions process_single_file reports, in tenths.                   *)
(***************************************************************************)
P_Loading == 0
P_Geometry == 1
P_Subset == 2
P_FineGrid == 3
P_QA == 4
P_Reproject == 5
P_Clip == 7
P_Export == 8
P_Complete == 10
P_ErrorReset == P_Loading

P_Error == 10

(***************************************************************************)
(* process_batch.file_progress: the closure handed to process_single_file. *)
(* The message argument is passed through unchanged and is left out.       *)
(***************************************************************************)
\* overall_progress = (i + progress) / total_files, progress in tenths.
overall_progress_off_by_one(idx, p, total) ==
    [num |-> 10 * (idx + 1) + p, den |-> 10 * total]

overall_progress(idx, p, total) == [num |-> 10 * idx + p, den |-> 10 * total]

\* progress_callback(message, overall_progress, i + 1, total_files)
file_progress_zero_based(idx, p, total) ==
    [fraction |-> overall_progress(idx, p, total), current |-> idx, total |-> total]

file_progress(idx, p, total) ==
    [fraction |-> overall_progress(idx, p, total), current |-> idx + 1, total |-> total]

\* The batch-level calls that reporting the fractions fracs makes while file
\* idx is processed; `during` records that file for the history.
Forward(fracs, idx) ==
    IF has_callback
    THEN [k \in 1..Len(fracs) |->
            [call |-> file_progress(idx, fracs[k], Len(filepaths)), during |-> idx]]
    ELSE <<>>

(***************************************************************************)
(* The exception boundary of process_single_file.                          *)
(***************************************************************************)
\* The places of process_single_file where a collaborator can raise.
Sites == {"DataLoader", "validate_file", "get_lat_lon_grids", "find_region_bounds",
          "get_red_radiance", "extract_subset", "create_fine_grid",
          "reproject_to_wgs84", "clip_xarray_dataset", "export_netcdf",
          "export_geotiff"}

\* str(e) of the exceptions a site raises; an exception may carry no text.
ExcText(site) ==
    CASE site = "DataLoader" -> {"", "[Errno 13] Permission denied"}
      [] site = "validate_file" -> {"Invalid MISR file"}
      [] site = "get_lat_lon_grids" -> {"Cannot load geometric parameters"}
      [] site = "find_region_bounds" -> {"Cannot determine region bounds"}
      [] site = "get_red_radiance" -> {"Cannot load red band data"}
      [] site = "extract_subset" -> {"too many indices for array"}
      [] site = "create_fine_grid" -> {"index 0 is out of bounds"}
      [] site = "reproject_to_wgs84" -> {"Cannot reproject data"}
      [] site = "clip_xarray_dataset" -> {"Cannot clip dataset"}
      [] site = "export_netcdf" -> {"Cannot export NetCDF"}
      [] site = "export_geotiff" -> {"Cannot export GeoTIFF"}

\* The two ValueErrors process_single_file raises itself on a domain-empty result.
NoRegionText == "No data found in target region"
NoDataText == "Reprojection failed - no valid data"

\* Whether the try block of process_single_file encloses the site.
CaughtAfterLoaderOnly(site) == site # "DataLoader"

Caught(site) == site \in Sites \cup {"no_region", "no_data"}

\* except Exception as e: error_msg = f"Processing failed: {str(e)}"
HandleException(r, e) == [r EXCEPT !.error_message = "Processing failed: " \o e]

(***************************************************************************)
(* The branches of process_single_file.                                    *)
(***************************************************************************)
\* if self.config.enable_qa_filtering:
RunsQualityFilter(cfg) == cfg.enable_qa_filtering

\* if self.config.enable_clipping and self.clipper.geometries:
RunsClippingNegated(cfg, geoms) == cfg.enable_clipping /\ ~geoms

RunsClipping(cfg, geoms) == cfg.enable_clipping /\ geoms

\* Exporter.create_filename(base_name, processing_info, add_timestamp); the
\* timestamp part is left out.
create_filename(base_name, clipped, qa_filtered) ==
    base_name \o "_red_275m" \o (IF clipped THEN "_clipped" ELSE "")
              \o (IF qa_filtered THEN "_qa" ELSE "")

\* processing_info["clipped"]
InfoClippedWhenEnabled(cfg, r) == cfg.enable_clipping

InfoClipped(cfg, r) == cfg.enable_clipping /\ <<"clipped", "True">> \in r.metadata

\* export_results after both exports returned.
ExportResults(cfg, filename) ==
    (IF cfg.export_netcdf THEN {<<"netcdf", filename \o ".nc">>} ELSE {})
    \cup (IF cfg.export_geotiff THEN {<<"geotiff", filename \o ".tif">>} ELSE {})

\* What result.output_files holds when export_geotiff raises after
\* export_netcdf returned: export_results is a local of the try block.
OutputsAtGeotiffFaultEager(cfg, filename, r) ==
    IF cfg.export_netcdf THEN {<<"netcdf", filename \o ".nc">>} ELSE {}

OutputsAtGeotiffFault(cfg, filename, r) == r.output_files

\* results.append(result)
AppendResultIfSuccess(rs, r) == IF r.success THEN Append(rs, r) ELSE rs

AppendResult(rs, r) == Append(rs, r)

(***************************************************************************)
(* Arrays.  A 2-D array is [rows, cols, at], at mapping <<row, col>>       *)
(* (0-based, as numpy) to the cell's value.                                *)
(***************************************************************************)
\* np.nan: a float for which every comparison is false.
NaN == -1000

\* a >= b and a <= b on floats.
Ge(a, b) == a # NaN /\ b # NaN /\ a >= b
Le(a, b) == a # NaN /\ b # NaN /\ a <= b

Min(S) == CHOOSE x \in S : \A y \in S : x <= y
Max(S) == CHOOSE x \in S : \A y \in S : x >= y

Cells(rows, cols) == (0..(rows - 1)) \X (0..(cols - 1))

\* Every array of the given shape with cells drawn from Vals.
ArraysOfShape(rows, cols, Vals) ==
    {[rows |-> rows, cols |-> cols, at |-> f] : f \in [Cells(rows, cols) -> Vals]}

(***************************************************************************)
(* Reprojector.find_region_bounds                                          *)
(***************************************************************************)
\* Bounds never returned: Python's None for the optional tuple.
NoBounds == <<>>

\* in_region = (lat >= tlat - m) & (lat <= tlat + m) & (lon >= tlon - m) & (lon <= tlon + m)
in_region_strict(lat, lon, t) ==
    {rc \in Cells(lat.rows, lat.cols) :
        /\ Ge(lat.at[rc], t.lat - t.margin) /\ Le(lat.at[rc], t.lat + t.margin - 1)
        /\ Ge(lon.at[rc], t.lon - t.margin) /\ Le(lon.at[rc], t.lon + t.margin - 1)}

in_region(lat, lon, t) ==
    {rc \in Cells(lat.rows, lat.cols) :
        /\ Ge(lat.at[rc], t.lat - t.margin) /\ Le(lat.at[rc], t.lat + t.margin)
        /\ Ge(lon.at[rc], t.lon - t.margin) /\ Le(lon.at[rc], t.lon + t.margin)}

\* rows, cols = np.where(in_region); the minima and maxima of each, or None
\* when np.sum(in_region) == 0.
find_region_bounds_first_cell(lat, lon, t) ==
    LET inside == in_region(lat, lon, t)
        first == CHOOSE rc \in inside : \A o \in inside :
                    rc[1] < o[1] \/ (rc[1] = o[1] /\ rc[2] <= o[2])
    IN  IF Cardinality(inside) = 0 THEN NoBounds
        ELSE <<first[1], Max({rc[1] : rc \in inside}),
               first[2], Max({rc[2] : rc \in inside})>>

find_region_bounds(lat, lon, t) ==
    LET inside == in_region(lat, lon, t)
        rows == {rc[1] : rc \in inside}
        cols == {rc[2] : rc \in inside}
    IN  IF Cardinality(inside) = 0 THEN NoBounds
        ELSE <<Min(rows), Max(rows), Min(cols), Max(cols)>>

(***************************************************************************)
(* Reprojector.extract_subset                                              *)
(***************************************************************************)
\* Python's a[start:stop] on an axis of length n, 0 <= start: the first index
\* taken and how many are taken.
SliceStart(n, start) == IF start < n THEN start ELSE n
SliceLen(n, start, stop) ==
    LET a == SliceStart(n, start)
        b == IF stop < n THEN stop ELSE n
    IN  IF b > a THEN b - a ELSE 0

\* a[r0:r1, c0:c1] as numpy's view of an array of shape <<rows, cols>>: where
\* the view starts in the array and its shape.
View(shape, r0, r1, c0, c1) ==
    [row0 |-> SliceStart(shape[1], r0), col0 |-> SliceStart(shape[2], c0),
     rows |-> SliceLen(shape[1], r0, r1), cols |-> SliceLen(shape[2], c0, c1)]

\* The array a view selects.
Take(a, v) ==
    [rows |-> v.rows, cols |-> v.cols,
     at |-> [rc \in Cells(v.rows, v.cols) |-> a.at[<<v.row0 + rc[1], v.col0 + rc[2]>>]]]

\* red_data[row_min * s : (row_max + 1) * s, col_min * s : (col_max + 1) * s]
red_view_scaled_end_wrong(shape, b, s) ==
    View(shape, b[1] * s, b[2] * s + 1, b[3] * s, b[4] * s + 1)

red_view_scaled(shape, b, s) ==
    View(shape, b[1] * s, (b[2] + 1) * s, b[3] * s, (b[4] + 1) * s)

\* extract_subset(lat_grid, lon_grid, red_data, bounds): the two coordinate
\* subsets, and the value subset as the view of red_data it is.
extract_subset(lat, lon, shape, b, s) ==
    LET geo == View(<<lat.rows, lat.cols>>, b[1], b[2] + 1, b[3], b[4] + 1)
    IN  [lat_subset |-> Take(lat, geo),
         lon_subset |-> Take(lon, geo),
         red_subset |-> IF shape = <<lat.rows, lat.cols>>
                        THEN View(shape, b[1], b[2] + 1, b[3], b[4] + 1)
                        ELSE red_view_scaled(shape, b, s)]

(***************************************************************************)
(* process_batch and process_single_file, one action per pipeline step.    *)
(***************************************************************************)
\* The coordinate grids the files of the model hold.
CoordVals == {<<1, 1>>, <<NaN, 1>>, <<1, NaN>>, <<3, 1>>, <<1, 4>>}
FileGrids == ArraysOfShape(1, 1, CoordVals)
LatOf(g) == [g EXCEPT !.at = [rc \in DOMAIN g.at |-> g.at[rc][1]]]
LonOf(g) == [g EXCEPT !.at = [rc \in DOMAIN g.at |-> g.at[rc][2]]]

\* The Reprojector state BatchProcessor.__init__ sets from the configuration.
ConfigTarget == [lat |-> 1, lon |-> 1, margin |-> 2]

NoResult == [input_file |-> None, success |-> FALSE, output_files |-> {},
             error_message |-> None, metadata |-> {}]

\* DataLoader.__init__: no dataset is open.
NewLoader == [_geom_ds |-> FALSE, _red_ds |-> FALSE, _qa_ds |-> FALSE]

\* load_geometry, load_red_band and load_qa_data keep the dataset they open.
load_geometry(l) == [l EXCEPT !._geom_ds = TRUE]
load_red_band(l) == [l EXCEPT !._red_ds = TRUE]
load_qa_data(l, has_qa) == [l EXCEPT !._qa_ds = @ \/ has_qa]

\* validate_file: load_geometry, load_red_band, then load_qa_data.
validate_file(l, has_qa) == load_qa_data(load_red_band(load_geometry(l)), has_qa)

\* DataLoader.close, which __exit__ calls: every open dataset is closed and
\* the three references are cleared.
close_keeps_qa(l) == [l EXCEPT !._geom_ds = FALSE, !._red_ds = FALSE]

close(l) == [_geom_ds |-> FALSE, _red_ds |-> FALSE, _qa_ds |-> FALSE]

\* The value subset and the quality array of a file of the model: one pixel.
FileRed == ArraysOfShape(1, 1, {5, NaN})
FileQa == ArraysOfShape(1, 1, {0, 1})
NoArray == [rows |-> 0, cols |-> 0, at |-> <<>>]

\* config.qa_filters of a configuration with quality filtering enabled.
ConfigQaFilters == <<"cloud_detected">>

\* Clipper.check_overlap: false when no geometry is loaded; true when the
\* test itself raises; otherwise whether a geometry intersects the bounds.
check_overlap_fail_closed(geoms, fault, intersects) ==
    IF ~geoms THEN FALSE
    ELSE IF fault THEN FALSE
    ELSE intersects

check_overlap(geoms, fault, intersects) ==
    IF ~geoms THEN FALSE
    ELSE IF fault THEN TRUE
    ELSE intersects

\* How a check_overlap call can end.
OverlapOutcomes == {"intersects", "disjoint", "check_failed"}

otherVars == <<summaryVars, regionVars, qaVars, gridVars, moreVars>>

\* The step moves on: the result is r, the fractions fracs were reported and
\* the steps entered were entered.
Go(nextpc, r, fracs, entered, b, ds) ==
    /\ pc' = nextpc
    /\ result' = r
    /\ progress' = progress \o fracs
    /\ batch_calls' = batch_calls \o Forward(fracs, i)
    /\ steps' = steps \o entered
    /\ bounds' = b
    /\ reprojected_ds' = ds
    /\ UNCHANGED <<config, geometries, filepaths, has_callback, i, results,
                   faulted, crashed, otherVars>>

\* An exception with text e is raised at site, after fracs were reported:
\* the with block releases the loader, and the except clause, when the try
\* block encloses the site, records the error and reports 1.0.
Raise(site, e, r, fracs, entered) ==
    /\ faulted' = site
    /\ loader' = close(loader)
    /\ UNCHANGED <<red_subset, qa_data>>
    /\ IF Caught(site)
       THEN /\ pc' = "Failed"
            /\ result' = HandleException(r, e)
            /\ progress' = progress \o fracs \o <<P_Error>>
            /\ batch_calls' = batch_calls \o Forward(fracs \o <<P_Error>>, i)
            /\ steps' = steps \o entered \o <<"Failed">>
            /\ crashed' = FALSE
       ELSE /\ pc' = "crashed"
            /\ result' = r
            /\ progress' = progress \o fracs
            /\ batch_calls' = batch_calls \o Forward(fracs, i)
            /\ steps' = steps \o entered
            /\ crashed' = TRUE
    /\ UNCHANGED <<config, geometries, filepaths, has_callback, i, results,
                   bounds, reprojected_ds, otherVars>>

RaiseAt(site, r, fracs, entered) ==
    /\ \E e \in ExcText(site) : Raise(site, e, r, fracs, entered)
    /\ UNCHANGED overlap

\* for i, filepath in enumerate(filepaths): process_single_file(filepath,
\* file_progress) creates its result.
NextFile ==
    /\ pc = "loop"
    /\ i < Len(filepaths)
    /\ pc' = "Loading"
    /\ result' = NewResult(filepaths[i + 1])
    /\ steps' = <<>>
    /\ progress' = <<>>
    /\ faulted' = None
    /\ loader' = NewLoader
    /\ red_subset' = NoArray
    /\ qa_data' = NoArray
    /\ overlap' = None
    /\ UNCHANGED <<config, geometries, filepaths, has_callback, i, results, bounds,
                   reprojected_ds, batch_calls, crashed, otherVars>>

\* Loading: DataLoader(filepath), validate_file, get_lat_lon_grids.  The
\* file holds quality data or not; validate_file finds out.
Loading ==
    /\ pc = "Loading"
    /\ LET validated == IF config.validate_inputs
                        THEN [result EXCEPT !.metadata = @ \cup {<<"validated", "True">>}]
                        ELSE result
       IN  \/ RaiseAt("DataLoader", result, <<P_Loading>>, <<"Loading">>)
           \/ /\ config.validate_inputs
              /\ RaiseAt("validate_file", result, <<P_Loading>>, <<"Loading">>)
           \/ RaiseAt("get_lat_lon_grids", validated, <<P_Loading, P_Geometry>>,
                      <<"Loading">>)
           \/ /\ Go("RegionSearch", validated, <<P_Loading, P_Geometry>>, <<"Loading">>,
                    bounds, reprojected_ds)
              /\ \E has_qa \in BOOLEAN :
                    loader' = IF config.validate_inputs
                              THEN load_geometry(validate_file(loader, has_qa))
                              ELSE load_geometry(loader)
              /\ UNCHANGED <<red_subset, qa_data, overlap>>

\* RegionSearch: find_region_bounds on the file's grids; None is turned into
\* a ValueError.
RegionSearch ==
    /\ pc = "RegionSearch"
    /\ \/ RaiseAt("find_region_bounds", result, <<>>, <<"RegionSearch">>)
       \/ \E g \in FileGrids :
            LET b == find_region_bounds(LatOf(g), LonOf(g), ConfigTarget)
            IN  IF b = NoBounds
                THEN /\ Raise("no_region", NoRegionText, result, <<>>,
                                <<"RegionSearch">>)
                     /\ UNCHANGED overlap
                ELSE /\ Go("SubsetExtraction", result, <<>>, <<"RegionSearch">>, b,
                             reprojected_ds)
                     /\ UNCHANGED fileVars

\* SubsetExtraction: get_red_radiance and extract_subset.
SubsetExtraction ==
    /\ pc = "SubsetExtraction"
    /\ \/ RaiseAt("get_red_radiance", result, <<P_Subset>>, <<"SubsetExtraction">>)
       \/ RaiseAt("extract_subset", result, <<P_Subset>>, <<"SubsetExtraction">>)
       \/ /\ Go("FineGridBuild", result, <<P_Subset>>, <<"SubsetExtraction">>, bounds,
                reprojected_ds)
          /\ loader' = load_red_band(loader)
          /\ red_subset' \in FileRed
          /\ UNCHANGED <<qa_data, overlap>>

\* FineGridBuild: create_fine_grid; then the quality filter when enabled.
FineGridBuild ==
    /\ pc = "FineGridBuild"
    /\ \/ RaiseAt("create_fine_grid", result, <<P_FineGrid>>, <<"FineGridBuild">>)
       \/ /\ Go(IF RunsQualityFilter(config) THEN "QualityFilter" ELSE "Reprojection",
                result, <<P_FineGrid>>, <<"FineGridBuild">>, bounds, reprojected_ds)
          /\ UNCHANGED fileVars

\* QualityFilter: load_qa_data (which returns None instead of raising) and
\* set_qa_dataset; red_subset is not filtered.  A file validate_file found
\* without quality data has none now either.
QualityFilter ==
    /\ pc = "QualityFilter"
    /\ Go("Reprojection", result, <<P_QA>>, <<"QualityFilter">>, bounds, reprojected_ds)
    /\ \E has_qa \in BOOLEAN :
          /\ config.validate_inputs => has_qa = loader._qa_ds
          /\ loader' = load_qa_data(loader, has_qa)
          /\ IF has_qa THEN qa_data' \in FileQa ELSE qa_data' = NoArray
    /\ UNCHANGED <<red_subset, overlap>>

\* Reprojection: reproject_to_wgs84; None, which it returns at once for a
\* subset without a valid value, is turned into a ValueError.
Reprojection ==
    /\ pc = "Reprojection"
    /\ \/ /\ \E rc \in DOMAIN red_subset.at : red_subset.at[rc] # NaN
          /\ RaiseAt("reproject_to_wgs84", result, <<P_Reproject>>, <<"Reprojection">>)
       \/ /\ Raise("no_data", NoDataText, result, <<P_Reproject>>, <<"Reprojection">>)
          /\ UNCHANGED overlap
       \/ /\ \E rc \in DOMAIN red_subset.at : red_subset.at[rc] # NaN
          /\ Go(IF RunsClipping(config, geometries) THEN "Clipping" ELSE "Export",
                result, <<P_Reproject>>, <<"Reprojection">>, bounds, "grid")
          /\ UNCHANGED fileVars

\* Clipping: check_overlap, and clip_xarray_dataset when it answers true.
Clipping ==
    /\ pc = "Clipping"
    /\ \E outcome \in OverlapOutcomes :
         /\ overlap' = outcome
         /\ IF check_overlap(geometries, outcome = "check_failed", outcome = "intersects")
            THEN \/ \E e \in ExcText("clip_xarray_dataset") :
                      Raise("clip_xarray_dataset", e, result, <<P_Clip>>, <<"Clipping">>)
                 \/ /\ Go("Export",
                          [result EXCEPT !.metadata = @ \cup {<<"clipped", "True">>}],
                          <<P_Clip>>, <<"Clipping">>, bounds, "clipped")
                    /\ UNCHANGED <<loader, red_subset, qa_data>>
            ELSE /\ Go("Export",
                       [result EXCEPT !.metadata = @ \cup {<<"clipped", "False">>}],
                       <<P_Clip>>, <<"Clipping">>, bounds, reprojected_ds)
                 /\ UNCHANGED <<loader, red_subset, qa_data>>

\* Export: create_filename, export_netcdf and export_geotiff as enabled, then
\* the result is marked successful, 1.0 is reported and the with block ends.
Export ==
    /\ pc = "Export"
    /\ LET filename == create_filename(Stem(result.input_file),
                                       InfoClipped(config, result),
                                       config.enable_qa_filtering)
       IN  \/ /\ config.export_netcdf
              /\ RaiseAt("export_netcdf", result, <<P_Export>>, <<"Export">>)
           \/ /\ config.export_geotiff
              /\ RaiseAt("export_geotiff",
                         [result EXCEPT !.output_files =
                            OutputsAtGeotiffFault(config, filename, result)],
                         <<P_Export>>, <<"Export">>)
           \/ /\ Go("Done",
                    [result EXCEPT !.output_files = ExportResults(config, filename),
                                   !.success = TRUE],
                    <<P_Export, P_Complete>>, <<"Export", "Done">>, bounds,
                    reprojected_ds)
              /\ loader' = close(loader)
              /\ UNCHANGED <<red_subset, qa_data, overlap>>

\* process_single_file returns and process_batch appends the result.
FinishFile ==
    /\ pc \in {"Done", "Failed"}
    /\ results' = AppendResult(results, result)
    /\ i' = i + 1
    /\ pc' = "loop"
    /\ result' = NoResult
    /\ bounds' = NoBounds
    /\ reprojected_ds' = None
    /\ red_subset' = NoArray
    /\ qa_data' = NoArray
    /\ overlap' = None
    /\ UNCHANGED <<config, geometries, filepaths, has_callback, steps, progress,
                   batch_calls, faulted, crashed, loader, otherVars>>

\* The loop is over: return results.
ReturnResults ==
    /\ pc = "loop"
    /\ i >= Len(filepaths)
    /\ pc' = "returned"
    /\ UNCHANGED <<config, geometries, filepaths, has_callback, i, result, results,
                   bounds, reprojected_ds, steps, progress, batch_calls, faulted,
                   crashed, fileVars, otherVars>>

(***************************************************************************)
(* BatchProcessor.get_processing_summary                                   *)
(***************************************************************************)
\* A float quotient n / d; den = 0 stands for the ZeroDivisionError raised.
Quotient(n, d) == [num |-> n, den |-> d]
Zero == Quotient(0, 1)
IsZero(q) == q.den # 0 /\ q.num = 0

RECURSIVE SumTimes(_)
\* sum(r.processing_time for r in results)
SumTimes(rs) == IF rs = <<>> THEN 0 ELSE rs[1].processing_time + SumTimes(Tail(rs))

IsSuccess(r) == r.success
IsFailure(r) == ~r.success

\* len(successful) / total_files * 100 if total_files > 0 else 0
success_rate_unguarded(n_successful, total_files) ==
    Quotient(n_successful * 100, total_files)

success_rate(n_successful, total_files) ==
    IF total_files > 0 THEN Quotient(n_successful * 100, total_files) ELSE Zero

\* sum(...) / total_files if total_files > 0 else 0
average_processing_time(total_time, total_files) ==
    IF total_files > 0 THEN Quotient(total_time, total_files) ELSE Zero

\* {error.error_message: sum(1 for r in failed if r.error_message ==
\*  error.error_message) for error in failed}
error_summary(failed) ==
    [m \in {failed[k].error_message : k \in DOMAIN failed} |->
        Cardinality({k \in DOMAIN failed : failed[k].error_message = m})]

RECURSIVE CountOutputs(_)
\* len(all_output_files): the files get_export_summary is asked about.
CountOutputs(rs) ==
    IF rs = <<>> THEN 0 ELSE Cardinality(rs[1].output_files) + CountOutputs(Tail(rs))

\* The summary dict; export_summary and error_summary are keys only when
\* there are successful, respectively failed, results.
get_processing_summary(rs) ==
    LET total_files == Len(rs)
        successful == SelectSeq(rs, IsSuccess)
        failed == SelectSeq(rs, IsFailure)
    IN  [total_files |-> total_files,
         successful |-> Len(successful),
         failed |-> Len(failed),
         success_rate |-> success_rate(Len(successful), total_files),
         total_processing_time |-> SumTimes(rs),
         average_processing_time |-> average_processing_time(SumTimes(rs), total_files)]
        @@ (IF successful # <<>>
            THEN "export_summary" :> [files |-> CountOutputs(successful)]
            ELSE <<>>)
        @@ (IF failed # <<>> THEN "error_summary" :> error_summary(failed) ELSE <<>>)

\* The ProcessingResult values of the result lists summarised.
ResultValues ==
    {[input_file |-> "a.nc", success |-> ok,
      output_files |-> IF ok THEN {<<"geotiff", "a_red_275m.tif">>} ELSE {},
      error_message |-> m, processing_time |-> t, metadata |-> {}] :
        ok \in BOOLEAN, m \in {None, "Processing failed: x", "Processing failed: y"},
        t \in 0..MaxElapsed}

NoSummary == [called |-> FALSE]

Summarize ==
    /\ summary = NoSummary
    /\ summary' = get_processing_summary(sum_results)
    /\ UNCHANGED <<sum_results, batchVars, regionVars, qaVars, gridVars, moreVars>>

(***************************************************************************)
(* find_region_bounds and extract_subset on arbitrary small grids.         *)
(***************************************************************************)
\* The shapes of the coordinate grids: at most MaxCells cells.
Shapes == {sh \in (0..MaxCells) \X (0..MaxCells) : sh[1] * sh[2] <= MaxCells}

CoordGrids == UNION {ArraysOfShape(sh[1], sh[2], CoordVals) : sh \in Shapes}

Targets == {[lat |-> 1, lon |-> 1, margin |-> m] : m \in {0, 2}}

\* Reprojector(scale_factor=...): 64 unless the caller gives another.
DefaultScaleFactor == 64
ScaleFactors == {1, 2, DefaultScaleFactor}

\* The value grids handed to extract_subset: of the coordinate grid's shape,
\* scale_factor times it, and one row and column short of that.
RedShapes(lat, s) ==
    {<<lat.rows, lat.cols>>, <<s * lat.rows, s * lat.cols>>,
     <<s * lat.rows - 1, s * lat.cols - 1>>}

NoGrid == [rows |-> 0, cols |-> 0, at |-> <<>>]
NoSubset == [called |-> FALSE]

FindRegion ==
    /\ rpc = "start"
    /\ found' = find_region_bounds(lat_grid, lon_grid, target)
    /\ rpc' = "found"
    /\ UNCHANGED <<lat_grid, lon_grid, target, scale_factor, red_shape, subset,
                   batchVars, summaryVars, qaVars, gridVars, moreVars>>

ExtractSubset ==
    /\ rpc = "found"
    /\ found # NoBounds
    /\ \E shape \in RedShapes(lat_grid, scale_factor) :
         /\ red_shape' = shape
         /\ subset' = extract_subset(lat_grid, lon_grid, shape, found, scale_factor)
    /\ rpc' = "extracted"
    /\ UNCHANGED <<lat_grid, lon_grid, target, scale_factor, found, batchVars,
                   summaryVars, qaVars, gridVars, moreVars>>

(***************************************************************************)
(* QAFilter (qa_filter.py).  A quality array holds non-negative integers;  *)
(* a mask holds booleans; both are arrays [rows, cols, at] as above.       *)
(***************************************************************************)
\* QAFilter.QA_FLAGS; a list of valid values is read only through np.isin and
\* is kept as a set.
QA_FLAGS ==
    ("cloud_detected" :> [bit |-> 0, valid_values |-> {0}])
    @@ ("clear_sky" :> [bit |-> 1, valid_values |-> {1}])
    @@ ("high_quality" :> [bit |-> 2, valid_values |-> {1}])
    @@ ("shadow_detected" :> [bit |-> 3, valid_values |-> {0}])
    @@ ("snow_ice" :> [bit |-> 4, valid_values |-> {0, 1}])
    @@ ("water_detected" :> [bit |-> 5, valid_values |-> {0, 1}])
    @@ ("retrieval_quality" :> [bit_range |-> <<6, 7>>, valid_values |-> {0, 1, 2}])

\* QAFilter(): no filter enabled, no custom flag.
NoFilters == <<>>
NoCustomFlags == <<>>

\* add_filter(flag_name, enabled): the new enabled_filters.
add_filter_unchecked(filters, custom, flag_name, enabled) ==
    IF enabled THEN Append(filters, flag_name)
    ELSE SelectSeq(filters, LAMBDA n : n # flag_name)

add_filter(filters, custom, flag_name, enabled) ==
    IF enabled /\ flag_name \notin Range(filters)
    THEN IF flag_name \in DOMAIN QA_FLAGS \/ flag_name \in DOMAIN custom
         THEN Append(filters, flag_name)
         ELSE filters
    ELSE IF ~enabled /\ flag_name \in Range(filters)
         THEN SelectSeq(filters, LAMBDA n : n # flag_name)
         ELSE filters

\* add_custom_flag(flag_name, bit_position, valid_values): the new custom_flags.
add_custom_flag(custom, flag_name, bit_position, valid_values) ==
    (flag_name :> [bit |-> bit_position, valid_values |-> valid_values,
                   description |-> ""]) @@ custom

\* get_available_flags(): {**self.QA_FLAGS, **self.custom_flags}, a custom
\* definition replacing the built-in one of its name.
get_available_flags(custom) == custom @@ QA_FLAGS

\* a >> n and a & b on non-negative integers.
Shr(a, n) == a \div (2 ^ n)

RECURSIVE BitAnd(_, _)
BitAnd(a, b) ==
    IF a = 0 \/ b = 0 THEN 0
    ELSE (a % 2) * (b % 2) + 2 * BitAnd(a \div 2, b \div 2)

\* extract_bit_values: (qa_data >> bit_position) & 1, for one pixel.
extract_bit_values_no_shift(q, bit_position) == BitAnd(q, 1)

extract_bit_values(q, bit_position) == BitAnd(Shr(q, bit_position), 1)

\* extract_bit_range: (qa_data >> start_bit) & ((1 << num_bits) - 1), for one pixel.
extract_bit_range(q, bit_range) ==
    LET start_bit == bit_range[1]
        end_bit == bit_range[2]
        num_bits == end_bit - start_bit + 1
        mask == (2 ^ num_bits) - 1
    IN  BitAnd(Shr(q, start_bit), mask)

\* The body of create_quality_mask's loop for one flag and one pixel: the
\* combined mask after the flag; an unknown flag and a definition with
\* neither "bit" nor "bit_range" are skipped.
combine_flag(combined, custom, flag_name, q) ==
    IF flag_name \notin DOMAIN QA_FLAGS /\ flag_name \notin DOMAIN custom
    THEN combined
    ELSE LET flag_def == IF flag_name \in DOMAIN QA_FLAGS THEN QA_FLAGS[flag_name]
                         ELSE custom[flag_name]
         IN  IF "bit" \in DOMAIN flag_def
             THEN combined /\ extract_bit_values(q, flag_def.bit) \in flag_def.valid_values
             ELSE IF "bit_range" \in DOMAIN flag_def
             THEN combined
                  /\ extract_bit_range(q, flag_def.bit_range) \in flag_def.valid_values
             ELSE combined

RECURSIVE combined_mask(_, _, _, _)
\* for flag_name in self.enabled_filters: combined_mask &= flag_mask
combined_mask(combined, filters, custom, q) ==
    IF filters = <<>> THEN combined
    ELSE combined_mask(combine_flag(combined, custom, Head(filters), q),
                       Tail(filters), custom, q)

\* np.ones_like(qa_data, dtype=bool)
ones_like(a) == [a EXCEPT !.at = [rc \in DOMAIN a.at |-> TRUE]]

\* create_quality_mask(qa_data)
create_quality_mask_reject_when_empty(filters, custom, qa) ==
    IF filters = <<>> THEN [qa EXCEPT !.at = [rc \in DOMAIN qa.at |-> FALSE]]
    ELSE [qa EXCEPT !.at =
            [rc \in DOMAIN qa.at |-> combined_mask(TRUE, filters, custom, qa.at[rc])]]

create_quality_mask(filters, custom, qa) ==
    IF filters = <<>> THEN ones_like(qa)
    ELSE [qa EXCEPT !.at =
            [rc \in DOMAIN qa.at |->
                combined_mask(ones_like(qa).at[rc], filters, custom, qa.at[rc])]]

\* a.size and a.shape
Size(a) == a.rows * a.cols
ShapeOf(a) == <<a.rows, a.cols>>

\* a.reshape(shape) read in column-major order.
reshape_column_major(a, shape) ==
    [rows |-> shape[1], cols |-> shape[2],
     at |-> [rc \in Cells(shape[1], shape[2]) |->
               LET k == rc[2] * shape[1] + rc[1]
               IN  a.at[<<k % a.rows, k \div a.rows>>]]]

\* a.reshape(shape), in numpy's row-major order; a.size = shape[1] * shape[2].
reshape(a, shape) ==
    [rows |-> shape[1], cols |-> shape[2],
     at |-> [rc \in Cells(shape[1], shape[2]) |->
               LET k == rc[1] * shape[2] + rc[2]
               IN  a.at[<<k \div a.cols, k % a.cols>>]]]

\* filtered_data = data.copy(); filtered_data[~quality_mask] = np.nan
mask_out(data, quality_mask) ==
    [data EXCEPT !.at = [rc \in DOMAIN data.at |->
                           IF quality_mask.at[rc] THEN data.at[rc] ELSE NaN]]

\* Whether apply_qa_filter goes on to filter, after its alignment test.
Alignable(data, qa) == ShapeOf(qa) = ShapeOf(data) \/ Size(qa) = Size(data)

\* What the caller's data array holds after apply_qa_filter wrote into
\* filtered_data: data.copy() is a new array, so the write is not seen.
data_after_write(data, filtered) == data

\* logger.error("Cannot align QA data with input data"); return data
unaligned_result_blank(data) == [data EXCEPT !.at = [rc \in DOMAIN data.at |-> NaN]]

unaligned_result(data) == data

\* apply_qa_filter(data, qa_data): the array returned, and the caller's data
\* array as the call leaves it.
apply_qa_filter(filters, custom, data, qa) ==
    IF ~Alignable(data, qa)
    THEN [returned |-> unaligned_result(data), data |-> data]
    ELSE LET aligned == IF ShapeOf(qa) # ShapeOf(data) THEN reshape(qa, ShapeOf(data))
                        ELSE qa
             quality_mask == create_quality_mask(filters, custom, aligned)
             filtered_data == mask_out(data, quality_mask)
         IN  [returned |-> filtered_data, data |-> data_after_write(data, filtered_data)]

\* The arguments the model hands to the QAFilter methods.
FilterNames == {"cloud_detected", "clear_sky", "retrieval_quality", "thin_cloud",
                "unknown_flag"}
CustomNames == {"thin_cloud", "cloud_detected"}
CustomBit == 1
CustomValid == {0}
QaVals == {0, 1, 2, 192}
DataVals == {5, 7, NaN}
QaShapes == {<<0, 0>>, <<1, 1>>, <<1, 2>>, <<2, 1>>}
DataShapes == {<<1, 1>>, <<1, 2>>, <<2, 1>>}

\* The quality arrays of a shape with one odd value among zeros, and the data
\* array of a shape whose cells are numbered in row-major order.
OneOdd(rows, cols) ==
    {[rows |-> rows, cols |-> cols,
      at |-> [rc \in Cells(rows, cols) |-> IF rc = p THEN 1 ELSE 0]] :
        p \in Cells(rows, cols)}
Numbered(rows, cols) ==
    [rows |-> rows, cols |-> cols,
     at |-> [rc \in Cells(rows, cols) |-> rc[1] * cols + rc[2] + 1]]

QaArrays ==
    UNION {ArraysOfShape(sh[1], sh[2], QaVals) : sh \in QaShapes} \cup OneOdd(2, 3)
DataArrays ==
    UNION {ArraysOfShape(sh[1], sh[2], DataVals) : sh \in DataShapes}
    \cup {Numbered(3, 2)}

NotApplied == [called |-> FALSE]
NoCall == [method |-> None]

AddFilter ==
    /\ qpc = "setup"
    /\ \E flag_name \in FilterNames, enabled \in BOOLEAN :
         /\ enabled_filters' = add_filter(enabled_filters, custom_flags, flag_name, enabled)
         /\ Len(enabled_filters') <= MaxFilters
         /\ qa_call' = [method |-> "add_filter", flag_name |-> flag_name,
                        enabled |-> enabled]
    /\ UNCHANGED <<custom_flags, qpc, qa_arg, data_arg, masked, applied>>
    /\ UNCHANGED <<batchVars, summaryVars, regionVars, gridVars, moreVars>>

AddCustomFlag ==
    /\ qpc = "setup"
    /\ \E flag_name \in CustomNames :
         /\ custom_flags' = add_custom_flag(custom_flags, flag_name, CustomBit, CustomValid)
         /\ qa_call' = [method |-> "add_custom_flag", flag_name |-> flag_name]
    /\ UNCHANGED <<enabled_filters, qpc, qa_arg, data_arg, masked, applied>>
    /\ UNCHANGED <<batchVars, summaryVars, regionVars, gridVars, moreVars>>

\* clear_filters()
ClearFilters ==
    /\ qpc = "setup"
    /\ enabled_filters' = <<>>
    /\ qa_call' = [method |-> "clear_filters"]
    /\ UNCHANGED <<custom_flags, qpc, qa_arg, data_arg, masked, applied>>
    /\ UNCHANGED <<batchVars, summaryVars, regionVars, gridVars, moreVars>>

CreateQualityMask ==
    /\ qpc = "setup"
    /\ \E qa \in QaArrays :
         /\ qa_arg' = qa
         /\ masked' = create_quality_mask(enabled_filters, custom_flags, qa)
    /\ qpc' = "masked"
    /\ qa_call' = [method |-> "create_quality_mask"]
    /\ UNCHANGED <<enabled_filters, custom_flags, data_arg, applied>>
    /\ UNCHANGED <<batchVars, summaryVars, regionVars, gridVars, moreVars>>

ApplyQaFilter ==
    /\ qpc = "setup"
    /\ \E data \in DataArrays, qa \in QaArrays :
         /\ qa_arg' = qa
         /\ data_arg' = data
         /\ applied' = apply_qa_filter(enabled_filters, custom_flags, data, qa)
    /\ qpc' = "filtered"
    /\ qa_call' = [method |-> "apply_qa_filter"]
    /\ UNCHANGED <<enabled_filters, custom_flags, masked>>
    /\ UNCHANGED <<batchVars, summaryVars, regionVars, gridVars, moreVars>>

(***************************************************************************)
(* Reprojector.reproject_to_wgs84 and Clipper.  Coordinates are integers   *)
(* in a unit of which the output resolution is Res.  A dataset is          *)
(* [kind, lat, lon, values]: an axis is [num, den], the coordinates        *)
(* num[k] / den in order, and values is an array of len(lat) rows.         *)
(***************************************************************************)
\* lat_res, lon_res of _calculate_native_resolution, in the model's unit.
Res == 12

NoArgs == [called |-> FALSE]
NoPolygons == {}

\* A dataset variable before the call, None returned, and an exception raised.
NoDataset == [kind |-> "not_called"]
NoneDataset == [kind |-> "none"]
Raised(text) == [kind |-> "raised", error |-> text]

\* np.meshgrid(lon_coords, lat_coords): the latitude and the longitude of
\* every cell.
Meshgrid(lat_coords, lon_coords) ==
    LET rows == Len(lat_coords)
        cols == Len(lon_coords)
    IN  [lat |-> [rows |-> rows, cols |-> cols,
                  at |-> [rc \in Cells(rows, cols) |-> lat_coords[rc[1] + 1]]],
         lon |-> [rows |-> rows, cols |-> cols,
                  at |-> [rc \in Cells(rows, cols) |-> lon_coords[rc[2] + 1]]]]

\* np.arange(start, stop, step) for step > 0.
arange(start, stop, step) ==
    LET n == IF stop <= start THEN 0 ELSE ((stop - start) + step - 1) \div step
    IN  [k \in 1..n |-> start + (k - 1) * step]

\* valid_mask = ~np.isnan(red_subset), as the cells it selects.
valid_mask(red) == {rc \in DOMAIN red.at : red.at[rc] # NaN}

\* The source points griddata is given: <<lat, lon, value>> per valid cell.
source_points(lat_fine, lon_fine, red) ==
    {<<lat_fine.at[rc], lon_fine.at[rc], red.at[rc]>> : rc \in valid_mask(red)}

\* scipy's griddata(method="linear", fill_value=nan).  It triangulates the
\* source points and raises when they do not span a plane.
Cross(a, b, c) == (b[1] - a[1]) * (c[2] - a[2]) - (b[2] - a[2]) * (c[1] - a[1])

Degenerate(points) == \A a, b, c \in points : Cross(a, b, c) = 0

InTriangle(p, a, b, c) ==
    LET d1 == Cross(a, b, p)
        d2 == Cross(b, c, p)
        d3 == Cross(c, a, p)
    IN  ~((d1 < 0 \/ d2 < 0 \/ d3 < 0) /\ (d1 > 0 \/ d2 > 0 \/ d3 > 0))

\* Whether p lies in the convex hull of the points.
InHull(p, points) ==
    \E a, b, c \in points : Cross(a, b, c) # 0 /\ InTriangle(p, a, b, c)

\* The output cells that lie in the hull without being a source point.
BetweenCells(points, output_lats, output_lons) ==
    {rc \in Cells(Len(output_lats), Len(output_lons)) :
        LET p == <<output_lats[rc[1] + 1], output_lons[rc[2] + 1]>>
        IN  /\ InHull(p, points)
            /\ ~\E s \in points : s[1] = p[1] /\ s[2] = p[2]}

\* red_output: the source value at a source point, the interpolated value
\* between for another cell in the hull, NaN outside the hull.
griddata(points, output_lats, output_lons, between) ==
    [rows |-> Len(output_lats), cols |-> Len(output_lons),
     at |-> [rc \in Cells(Len(output_lats), Len(output_lons)) |->
               LET p == <<output_lats[rc[1] + 1], output_lons[rc[2] + 1]>>
               IN  IF \E s \in points : s[1] = p[1] /\ s[2] = p[2]
                   THEN (CHOOSE s \in points : s[1] = p[1] /\ s[2] = p[2])[3]
                   ELSE IF rc \in DOMAIN between THEN between[rc]
                   ELSE NaN]]

\* np.sum(~np.isnan(a)) == 0
no_valid(a) == \A rc \in DOMAIN a.at : a.at[rc] = NaN

\* if np.sum(~np.isnan(red_output)) == 0: return None
no_valid_after_interpolation_unchecked(red_output) == FALSE

no_valid_after_interpolation(red_output) == no_valid(red_output)

\* _create_dataset(red_output, output_lats, output_lons)
create_dataset(red_output, output_lats, output_lons) ==
    [kind |-> "grid",
     lat |-> [num |-> output_lats, den |-> 1],
     lon |-> [num |-> output_lons, den |-> 1],
     values |-> red_output]

\* The output axes of reproject_to_wgs84 for a subset with a valid value.
output_axes(lat_fine, lon_fine, red) ==
    LET points == source_points(lat_fine, lon_fine, red)
        lat_min == Min({s[1] : s \in points})
        lat_max == Max({s[1] : s \in points})
        lon_min == Min({s[2] : s \in points})
        lon_max == Max({s[2] : s \in points})
    IN  [lats |-> arange(lat_min, lat_max + Res, Res),
         lons |-> arange(lon_min, lon_max + Res, Res)]

\* reproject_to_wgs84(lat_fine_grid, lon_fine_grid, red_subset), given the
\* values griddata finds between the source points: the interpolated array
\* (empty when griddata was not reached or raised) and what is returned.
reproject_to_wgs84(lat_fine, lon_fine, red, between) ==
    IF no_valid(red) THEN [red_output |-> NoArray, returned |-> NoneDataset]
    ELSE LET points == source_points(lat_fine, lon_fine, red)
             axes == output_axes(lat_fine, lon_fine, red)
         IN  IF Degenerate(points)
             THEN [red_output |-> NoArray, returned |-> Raised("Cannot reproject data")]
             ELSE LET red_output == griddata(points, axes.lats, axes.lons, between)
                  IN  [red_output |-> red_output,
                       returned |-> IF no_valid_after_interpolation(red_output)
                                    THEN NoneDataset
                                    ELSE create_dataset(red_output, axes.lats, axes.lons)]

\* A polygon of the model: the rectangle lat_lo..lat_hi by lon_lo..lon_hi.
\* Its edges lie on no pixel centre and on no grid coordinate.
PolygonEdges == {-1, 7, 13, 25}
Polygons ==
    {[lat_lo |-> e[1], lat_hi |-> e[2], lon_lo |-> e[3], lon_hi |-> e[4]] :
        e \in {q \in PolygonEdges \X PolygonEdges \X PolygonEdges \X PolygonEdges :
                 q[1] < q[2] /\ q[3] < q[4]}}

\* The polygon sets load_shapefile yields: never empty.
PolygonSets == {{g} : g \in Polygons}

\* FloorDiv(n, d) and CeilDiv(n, d): floor and ceiling of n / d, d > 0.
FloorDiv(n, d) == n \div d
CeilDiv(n, d) == -((-n) \div d)

\* lats.min(), lats.max() of an axis of denominator 1.
AxisMin(axis) == Min(Range(axis.num))
AxisMax(axis) == Max(Range(axis.num))

\* box(lons.min(), lats.min(), lons.max(), lats.max()) meets a geometry.
Intersects(geoms, ds) ==
    \E g \in geoms :
        /\ g.lat_lo <= AxisMax(ds.lat) /\ AxisMin(ds.lat) <= g.lat_hi
        /\ g.lon_lo <= AxisMax(ds.lon) /\ AxisMin(ds.lon) <= g.lon_hi

\* from_bounds(west, south, east, north, width, height): row 0 of the raster
\* is its northern edge; a pixel is span / count wide.
from_bounds(ds) ==
    [west |-> AxisMin(ds.lon), north |-> AxisMax(ds.lat),
     lon_span |-> AxisMax(ds.lon) - AxisMin(ds.lon),
     lat_span |-> AxisMax(ds.lat) - AxisMin(ds.lat),
     width |-> ds.values.cols, height |-> ds.values.rows]

\* The window rasterio.mask crops to with crop=True: the pixels the bounds
\* of the geometries touch, rounded outwards and cut to the raster.
geometry_window(t, geoms) ==
    LET left == Min({g.lon_lo : g \in geoms})
        right == Max({g.lon_hi : g \in geoms})
        bottom == Min({g.lat_lo : g \in geoms})
        top == Max({g.lat_hi : g \in geoms})
    IN  [row_start |-> Max({0, FloorDiv((t.north - top) * t.height, t.lat_span)}),
         row_stop |-> Min({t.height, CeilDiv((t.north - bottom) * t.height, t.lat_span)}),
         col_start |-> Max({0, FloorDiv((left - t.west) * t.width, t.lon_span)}),
         col_stop |-> Min({t.width, CeilDiv((right - t.west) * t.width, t.lon_span)})]

\* Whether the centre of raster pixel <<row, col>> lies in a geometry, the
\* coordinates taken times 2 * height and 2 * width.
centre_inside(t, geoms, row, col) ==
    LET lat2h == 2 * t.height * t.north - (2 * row + 1) * t.lat_span
        lon2w == 2 * t.width * t.west + (2 * col + 1) * t.lon_span
    IN  \E g \in geoms :
            /\ 2 * t.height * g.lat_lo < lat2h /\ lat2h < 2 * t.height * g.lat_hi
            /\ 2 * t.width * g.lon_lo < lon2w /\ lon2w < 2 * t.width * g.lon_hi

\* np.linspace(start, start + count * step, count) for start = origin +
\* sign * offset * span / size and step = sign * span / size, as an axis.
linspace_axis(origin, span, size, offset, count, sign) ==
    IF count = 1
    THEN [num |-> <<origin * size + sign * offset * span>>, den |-> size]
    ELSE [num |-> [k \in 1..count |->
                     origin * size * (count - 1)
                     + sign * offset * span * (count - 1)
                     + sign * (k - 1) * count * span],
          den |-> size * (count - 1)]

\* raster.write(data, 1): row r of the raster is row r of the data.
raster_row(t, row) == row

\* clip_xarray_dataset(dataset) with the geometries loaded.
clip_xarray_dataset(geoms, ds) ==
    IF geoms = NoPolygons THEN Raised("No shapefile loaded for clipping")
    ELSE LET t == from_bounds(ds)
         IN  IF t.lon_span = 0 \/ t.lat_span = 0
             THEN Raised("Cannot clip dataset")
             ELSE LET w == geometry_window(t, geoms)
                      height == w.row_stop - w.row_start
                      width == w.col_stop - w.col_start
                  IN  IF height <= 0 \/ width <= 0
                      THEN Raised("Cannot clip dataset")
                      ELSE [kind |-> "grid",
                            lat |-> linspace_axis(t.north, t.lat_span, t.height,
                                                  w.row_start, height, -1),
                            lon |-> linspace_axis(t.west, t.lon_span, t.width,
                                                  w.col_start, width, 1),
                            values |->
                              [rows |-> height, cols |-> width,
                               at |-> [rc \in Cells(height, width) |->
                                  IF centre_inside(t, geoms, w.row_start + rc[1],
                                                   w.col_start + rc[2])
                                  THEN ds.values.at[<<raster_row(t, w.row_start + rc[1]),
                                                      w.col_start + rc[2]>>]
                                  ELSE NaN]]]

\* The fine grids and value subsets handed to reproject_to_wgs84: a regular
\* grid from the origin, rows running north or south, whose spacing is the
\* output resolution, half of it or twice it; each value is NaN or the
\* cell's number, in a unit of which every interpolated value is a whole
\* number.
GridSteps == {<<Res, Res>>, <<0 - Res, Res>>, <<Res \div 2, Res \div 2>>,
              <<2 * Res, 2 * Res>>}

ValueArrays(rows, cols) ==
    {[rows |-> rows, cols |-> cols,
      at |-> [rc \in Cells(rows, cols) |->
                IF rc \in valid THEN 48 * (rc[1] * cols + rc[2] + 1) ELSE NaN]] :
        valid \in SUBSET Cells(rows, cols)}

ReprojectArgs ==
    UNION {
      LET fine == Meshgrid([r \in 1..sh[1] |-> (r - 1) * d[1]],
                           [c \in 1..sh[2] |-> (c - 1) * d[2]])
      IN  {[lat_fine_grid |-> fine.lat, lon_fine_grid |-> fine.lon, red_subset |-> red] :
             red \in ValueArrays(sh[1], sh[2])} :
      sh \in (1..MaxSide) \X (1..MaxSide), d \in GridSteps}

\* Whether d lies inside the circle through a, b and c.
InCircle(a, b, c, d) ==
    LET ax == a[1] - d[1]
        ay == a[2] - d[2]
        bx == b[1] - d[1]
        by == b[2] - d[2]
        cx == c[1] - d[1]
        cy == c[2] - d[2]
        det == (ax * ax + ay * ay) * (bx * cy - cx * by)
               - (bx * bx + by * by) * (ax * cy - cx * ay)
               + (cx * cx + cy * cy) * (ax * by - bx * ay)
        turn == Cross(a, b, c)
    IN  (det > 0 /\ turn > 0) \/ (det < 0 /\ turn < 0)

\* The triangles a Delaunay triangulation of the points can have: no point
\* lies inside the circle through the corners.  Where four points lie on one
\* circle, the triangles of either diagonal.
DelaunayTriangles(points) ==
    {t \in points \X points \X points :
        /\ Cross(t[1], t[2], t[3]) # 0
        /\ \A d \in points : ~InCircle(t[1], t[2], t[3], d)}

\* The value of the nearest corner instead of the interpolation.
linear_value_nearest_corner(p, t) == t[1][3]

\* The linear interpolation at p of the values at the corners of triangle t.
linear_value(p, t) ==
    LET a == t[1]
        b == t[2]
        c == t[3]
    IN  (Cross(p, b, c) * a[3] + Cross(a, p, c) * b[3] + Cross(a, b, p) * c[3])
        \div Cross(a, b, c)

\* The values linear interpolation can give at p: one per triangle holding p.
LinearValues(p, triangles) ==
    {linear_value(p, t) : t \in {u \in triangles : InTriangle(p, u[1], u[2], u[3])}}

\* The values griddata finds between the source points of the arguments.
\* Where the triangulation is not unique a cell has more than one possible
\* value; the model takes the least for all the cells or the greatest.
Betweens(args) ==
    LET points == source_points(args.lat_fine_grid, args.lon_fine_grid, args.red_subset)
        axes == output_axes(args.lat_fine_grid, args.lon_fine_grid, args.red_subset)
        triangles == DelaunayTriangles(points)
        at(rc) == LinearValues(<<axes.lats[rc[1] + 1], axes.lons[rc[2] + 1]>>, triangles)
    IN  IF no_valid(args.red_subset) \/ Degenerate(points) THEN {<<>>}
        ELSE LET cells == BetweenCells(points, axes.lats, axes.lons)
             IN  {[rc \in cells |-> Min(at(rc))], [rc \in cells |-> Max(at(rc))]}

Reproject ==
    /\ gpc = "start"
    /\ \E between \in Betweens(reproject_args) :
         LET r == reproject_to_wgs84(reproject_args.lat_fine_grid,
                                     reproject_args.lon_fine_grid,
                                     reproject_args.red_subset, between)
         IN  /\ interpolated' = r.red_output
             /\ result_ds' = r.returned
    /\ gpc' = "reprojected"
    /\ UNCHANGED <<reproject_args, polygons, overlap_result, clipped_ds>>
    /\ UNCHANGED <<batchVars, summaryVars, regionVars, qaVars, moreVars>>

\* Clipper.load_shapefile: the geometries of the file, of which there is at
\* least one.
LoadShapefile ==
    /\ gpc = "reprojected"
    /\ result_ds.kind = "grid"
    /\ polygons' \in PolygonSets
    /\ gpc' = "loaded"
    /\ UNCHANGED <<reproject_args, result_ds, interpolated, overlap_result, clipped_ds>>
    /\ UNCHANGED <<batchVars, summaryVars, regionVars, qaVars, moreVars>>

\* Clipper.check_overlap(dataset), whose computation may fail.
CheckOverlap ==
    /\ gpc \in {"reprojected", "loaded"}
    /\ result_ds.kind = "grid"
    /\ \E fault \in BOOLEAN :
         overlap_result' = check_overlap(polygons # NoPolygons, fault,
                                         Intersects(polygons, result_ds))
    /\ gpc' = "checked"
    /\ UNCHANGED <<reproject_args, polygons, result_ds, interpolated, clipped_ds>>
    /\ UNCHANGED <<batchVars, summaryVars, regionVars, qaVars, moreVars>>

\* Clipper.clip_xarray_dataset(dataset)
ClipDataset ==
    /\ gpc \in {"loaded", "checked"}
    /\ result_ds.kind = "grid"
    /\ clipped_ds' = clip_xarray_dataset(polygons, result_ds)
    /\ gpc' = "clipped"
    /\ UNCHANGED <<reproject_args, polygons, result_ds, interpolated, overlap_result>>
    /\ UNCHANGED <<batchVars, summaryVars, regionVars, qaVars, moreVars>>

(***************************************************************************)
(* BatchProcessor.__init__ and update_config.  The processor is            *)
(* [config, reprojector, enabled_filters, geometries]: geometries is the   *)
(* shapefile path the Clipper's geometries were loaded from, or None.      *)
(***************************************************************************)
RECURSIVE AddFilters(_, _)
\* for filter_name in config.qa_filters: self.qa_filter.add_filter(filter_name)
AddFilters(filters, names) ==
    IF names = <<>> THEN filters
    ELSE AddFilters(add_filter(filters, NoCustomFlags, Head(names), TRUE), Tail(names))

\* BatchProcessor.__init__: the filters of self.qa_filter.
EnabledFilters(cfg) ==
    IF cfg.enable_qa_filtering THEN AddFilters(NoFilters, ConfigQaFilters) ELSE NoFilters

\* The configurations of the model: two target regions, two resolutions (in
\* units of 0.0001 degree), clipping and quality filtering on or off, no
\* shapefile or one of two.
Shapefiles == {"a.shp", "b.shp"}
Configs ==
    [target_lat : {1, 2}, target_lon : {1}, region_margin : {2, 3},
     target_resolution : {25, 50}, enable_qa_filtering : BOOLEAN,
     enable_clipping : BOOLEAN, shapefile_path : {None} \cup Shapefiles]

\* Reprojector(target_lat, target_lon, region_margin, target_resolution)
NewReprojector(target_lat, target_lon, region_margin, target_resolution) ==
    [target_lat |-> target_lat, target_lon |-> target_lon,
     region_margin |-> region_margin, target_resolution |-> target_resolution]

\* Reprojector.update_target_region(target_lat, target_lon, region_margin)
update_target_region(rp, target_lat, target_lon, region_margin) ==
    [rp EXCEPT !.target_lat = target_lat, !.target_lon = target_lon,
               !.region_margin = region_margin]

\* if config.enable_clipping and config.shapefile_path:
LoadsShapefile(cfg) == cfg.enable_clipping /\ cfg.shapefile_path # None

\* BatchProcessor(config), load_shapefile having returned.
NewProcessor(cfg) ==
    [config |-> cfg,
     reprojector |-> NewReprojector(cfg.target_lat, cfg.target_lon, cfg.region_margin,
                                    cfg.target_resolution),
     enabled_filters |-> EnabledFilters(cfg),
     geometries |-> IF LoadsShapefile(cfg) THEN cfg.shapefile_path ELSE None]

\* update_config(new_config); load_shapefile, when called, returns or raises
\* (load_fails), and raising it leaves the geometries as they were.
update_config(bp, new_config, load_fails) ==
    [config |-> new_config,
     reprojector |-> update_target_region(bp.reprojector, new_config.target_lat,
                                          new_config.target_lon, new_config.region_margin),
     enabled_filters |-> EnabledFilters(new_config),
     geometries |-> IF LoadsShapefile(new_config) /\ ~load_fails
                    THEN new_config.shapefile_path
                    ELSE bp.geometries]

NoProcessor == [config |-> None]
NoRun == [called |-> FALSE]

UpdateConfig ==
    /\ processor # NoProcessor
    /\ \E new_config \in Configs, load_fails \in BOOLEAN :
         /\ load_fails => LoadsShapefile(new_config)
         /\ processor' = update_config(processor, new_config, load_fails)
    /\ UNCHANGED file_run
    /\ UNCHANGED <<batchVars, summaryVars, regionVars, qaVars, gridVars, validateVars,
                   deskVars>>

\* process_single_file, as far as clipping goes: the file is clipped with
\* the Clipper's geometries when clipping is enabled, geometries are loaded
\* and check_overlap returns true.
ProcessFile ==
    /\ processor # NoProcessor
    /\ \E outcome \in OverlapOutcomes :
         file_run' =
            [called |-> TRUE,
             enable_clipping |-> processor.config.enable_clipping,
             shapefile_path |-> processor.config.shapefile_path,
             clipped_with |->
                IF /\ RunsClipping(processor.config, processor.geometries # None)
                   /\ check_overlap(processor.geometries # None,
                                    outcome = "check_failed", outcome = "intersects")
                THEN processor.geometries
                ELSE None]
    /\ UNCHANGED processor
    /\ UNCHANGED <<batchVars, summaryVars, regionVars, qaVars, gridVars, validateVars,
                   deskVars>>

(***************************************************************************)
(* BatchProcessor.validate_inputs                                          *)
(***************************************************************************)
\* The entry of invalid_files for a path: f"{filepath}: {str(e)}", the
\* exception being validate_file's ValueError.
InvalidEntry(filepath) == [filepath |-> filepath, error |-> "Invalid MISR file"]

\* One turn of the loop over the files: the path is appended to valid_files
\* when validate_file returns and its entry to invalid_files when it raises.
check_file_counts_invalid_as_valid(vr, filepath, raises) ==
    IF raises
    THEN [vr EXCEPT !.valid_files = Append(@, filepath),
                    !.invalid_files = Append(@, InvalidEntry(filepath))]
    ELSE [vr EXCEPT !.valid_files = Append(@, filepath)]

check_file(vr, filepath, raises) ==
    IF raises
    THEN [vr EXCEPT !.invalid_files = Append(@, InvalidEntry(filepath))]
    ELSE [vr EXCEPT !.valid_files = Append(@, filepath)]

RECURSIVE check_files(_, _, _)
check_files(vr, paths, invalid) ==
    IF paths = <<>> THEN vr
    ELSE check_files(check_file(vr, Head(paths), Head(paths) \in invalid),
                     Tail(paths), invalid)

\* The check of the output directory and of the shapefile.
check_configuration(vr, a) ==
    LET directory == IF ~a.writable
                     THEN <<"Output directory is not writable">> ELSE <<>>
        shapefile == IF a.enable_clipping
                     THEN IF ~a.shapefile_path
                          THEN <<"Clipping enabled but no shapefile specified">>
                          ELSE IF ~a.shapefile_valid
                               THEN <<"Invalid shapefile">> ELSE <<>>
                     ELSE <<>>
    IN  [vr EXCEPT !.warnings = @ \o directory \o shapefile]

\* validate_inputs(filepaths)
validate_inputs(a) ==
    check_configuration(
        check_files([valid_files |-> <<>>, invalid_files |-> <<>>, warnings |-> <<>>],
                    a.filepaths, a.invalid),
        a)

\* The calls of the model: any list of at most MaxFiles of two paths, of
\* which any may be a file validate_file rejects; the output directory
\* writable or not; clipping enabled or not, with or without a shapefile
\* path, which names a shapefile validate_shapefile accepts or not.
ValidatePaths == {"a.nc", "b.hdf"}
ValidateArgs ==
    [filepaths : SeqsUpTo(ValidatePaths, MaxFiles), invalid : SUBSET ValidatePaths,
     writable : BOOLEAN, enable_clipping : BOOLEAN, shapefile_path : BOOLEAN,
     shapefile_valid : BOOLEAN]
NoValidateArgs == [filepaths |-> <<>>]
NotValidated == [valid_files |-> <<>>]

ValidateInputs ==
    /\ vpc = "start"
    /\ validation_results' = validate_inputs(validate_args)
    /\ vpc' = "returned"
    /\ UNCHANGED validate_args
    /\ UNCHANGED <<batchVars, summaryVars, regionVars, qaVars, gridVars, configVars,
                   deskVars>>

(***************************************************************************)
(* MISRProcessingAdapter.process_batch and the worker it runs              *)
(***************************************************************************)
HdfPaths == {"a.hdf", "b.hdf"}
HdfArgs == [files : SeqsUpTo(HdfPaths, MaxFiles), has_callback : BOOLEAN]
NoHdfArgs == [files |-> <<>>, has_callback |-> FALSE]
NoWorker == [returncode |-> None]
NoOutcome == [kind |-> None]

\* What stops the worker outside process_file: an import that fails, a
\* results file that cannot be written.
WorkerFaults == {"import MisrToolkit", "json.dump"}
\* What makes subprocess.run raise: the one-hour timeout, conda not found.
SubprocessFaults == {"TimeoutExpired", "FileNotFoundError"}

\* MISRProcessor.process_file catches every exception of a file and returns
\* a dictionary with success False and the error text.
process_file(filepath, fails) ==
    IF fails
    THEN [success |-> FALSE, error |-> "Error", output_file |-> None]
    ELSE [success |-> TRUE, error |-> None, output_file |-> "out.tif"]

\* The entry the worker appends for a file.
worker_entry(filepath, r) ==
    [input_file |-> filepath,
     output_file |-> IF r.success THEN r.output_file ELSE None,
     success |-> r.success,
     error |-> r.error]

\* main: the exit code and the JSON written to the output file. Without a
\* fault every file has an entry, in order; any exception ends in the handler
\* that writes success False with no results and exits with code 1.
main(files, failing, fault) ==
    IF fault = None
    THEN [returncode |-> 0,
          output |-> [success |-> TRUE,
                      results |-> [k \in 1..Len(files) |->
                                     worker_entry(files[k],
                                                  process_file(files[k], k \in failing))],
                      error |-> None],
          failing |-> failing]
    ELSE [returncode |-> 1,
          output |-> [success |-> FALSE, results |-> <<>>, error |-> fault],
          failing |-> failing]

Returned(rs) == [kind |-> "returned", results |-> rs]

\* The ProcessingResult built from an entry of the worker's results.
proc_result(result_data) ==
    [input_file |-> result_data.input_file,
     success |-> result_data.success,
     error_message |-> IF result_data.success THEN None ELSE result_data.error]

\* process_batch after subprocess.run: a list of results when the worker
\* exited with 0 and wrote success True, RuntimeError raised otherwise.
parse_results(w) ==
    IF w.returncode = 0
    THEN IF w.output.success
         THEN Returned([k \in 1..Len(w.output.results) |->
                          proc_result(w.output.results[k])])
         ELSE Raised("RuntimeError")
    ELSE Raised("RuntimeError")

\* progress_callback(message, progress, current, total), progress in tenths.
HdfNotify(calls, p, current) ==
    IF hdf_args.has_callback
    THEN Append(calls, [fraction |-> p, current |-> current,
                        total |-> Len(hdf_args.files)])
    ELSE calls

\* process_batch up to subprocess.run: the two temporary files are created, the
\* configuration is written, 0.0 and 0.1 are reported.
AdapterStart ==
    /\ hpc = "start"
    /\ hdf_calls' = HdfNotify(HdfNotify(hdf_calls, 0, 0), 1, 0)
    /\ hpc' = "subprocess"
    /\ UNCHANGED <<hdf_args, worker_result, hdf_out>>
    /\ UNCHANGED <<batchVars, summaryVars, regionVars, qaVars, gridVars, validateVars,
                   configVars, uiVars>>

\* The worker process runs main to its exit: any set of files fails in
\* process_file, and the worker itself may fail.
WorkerMain ==
    /\ hpc = "subprocess"
    /\ \E failing \in SUBSET (1..Len(hdf_args.files)),
          fault \in WorkerFaults \cup {None} :
         worker_result' = main(hdf_args.files, failing, fault)
    /\ hpc' = "exited"
    /\ UNCHANGED <<hdf_args, hdf_out, hdf_calls>>
    /\ UNCHANGED <<batchVars, summaryVars, regionVars, qaVars, gridVars, validateVars,
                   configVars, uiVars>>

\* subprocess.run raises; the finally clause removes the temporary files and
\* the exception leaves process_batch.
SubprocessRaises ==
    /\ hpc = "subprocess"
    /\ \E e \in SubprocessFaults : hdf_out' = Raised(e)
    /\ hpc' = "raised"
    /\ UNCHANGED <<hdf_args, worker_result, hdf_calls>>
    /\ UNCHANGED <<batchVars, summaryVars, regionVars, qaVars, gridVars, validateVars,
                   configVars, uiVars>>

\* process_batch after subprocess.run returned: 0.9 is reported and the
\* results are parsed.
AdapterParse ==
    /\ hpc = "exited"
    /\ hdf_calls' = HdfNotify(hdf_calls, 9, Len(hdf_args.files))
    /\ hdf_out' = parse_results(worker_result)
    /\ hpc' = IF hdf_out'.kind = "raised" THEN "raised" ELSE "returned"
    /\ UNCHANGED <<hdf_args, worker_result>>
    /\ UNCHANGED <<batchVars, summaryVars, regionVars, qaVars, gridVars, validateVars,
                   configVars, uiVars>>

(***************************************************************************)
(* MainWindow: _start_processing, _process_files, _processing_complete     *)
(***************************************************************************)
NoStart == [called |-> FALSE]

\* What a click on Process finds: files selected or not, a processor
\* configured or not, and how validation and its two questions went.
Validations == {"clean", "invalid, declined", "invalid, accepted",
                "warnings, declined", "warnings, accepted", "raises"}
StartRequests == [files : BOOLEAN, batch_processor : BOOLEAN, validation : Validations]

\* _start_processing up to "Start processing": whether the call goes on to
\* start a worker thread.
start_processing_unguarded(busy, req) ==
    /\ req.files
    /\ req.batch_processor
    /\ req.validation \in {"clean", "invalid, accepted", "warnings, accepted"}

start_processing(busy, req) ==
    /\ ~busy
    /\ req.files
    /\ req.batch_processor
    /\ req.validation \in {"clean", "invalid, accepted", "warnings, accepted"}

\* A message box either runs the event loop while it is open, so that
\* root.after callbacks run under it, or holds the main loop until dismissed.
DialogModes == {"pumping", "holding"}
MainLoopRuns == IF dialogs = <<>> THEN TRUE ELSE dialogs[Len(dialogs)] = "pumping"

NewThread == [at |-> "process_batch", outcome |-> None]

\* _start_processing, called from the Process button.
StartProcessing ==
    /\ MainLoopRuns
    /\ \E req \in StartRequests :
         LET starts == start_processing(is_processing, req)
         IN  /\ starts => Len(threads) < MaxBatches
             /\ start_call' = [called |-> TRUE, while_processing |-> is_processing,
                               started |-> starts]
             /\ is_processing' = (is_processing \/ starts)
             /\ threads' = IF starts THEN Append(threads, NewThread) ELSE threads
    /\ UNCHANGED <<after_queue, dialogs>>
    /\ UNCHANGED <<batchVars, summaryVars, regionVars, qaVars, gridVars, validateVars,
                   configVars, hdfVars>>

\* _process_files, in the worker thread: process_batch returns and
\* _show_results is scheduled, or it raises and the error box is scheduled.
ProcessBatchEnds ==
    /\ \E t \in 1..Len(threads), outcome \in {"returned", "raised"} :
         /\ threads[t].at = "process_batch"
         /\ threads' = [threads EXCEPT ![t] = [at |-> "finally", outcome |-> outcome]]
         /\ after_queue' =
              Append(after_queue,
                     IF outcome = "returned" THEN "_show_results" ELSE "showerror")
    /\ UNCHANGED <<is_processing, dialogs, start_call>>
    /\ UNCHANGED <<batchVars, summaryVars, regionVars, qaVars, gridVars, validateVars,
                   configVars, hdfVars>>

\* The finally clause of _process_files: _processing_complete is scheduled
\* and the thread ends.
ProcessFilesFinally ==
    /\ \E t \in 1..Len(threads) :
         /\ threads[t].at = "finally"
         /\ threads' = [threads EXCEPT ![t].at = "exited"]
         /\ after_queue' = Append(after_queue, "_processing_complete")
    /\ UNCHANGED <<is_processing, dialogs, start_call>>
    /\ UNCHANGED <<batchVars, summaryVars, regionVars, qaVars, gridVars, validateVars,
                   configVars, hdfVars>>

\* The main loop runs the oldest scheduled callback: _processing_complete
\* resets is_processing; _show_results and the error lambda open a message box.
HandleAfter ==
    /\ MainLoopRuns
    /\ after_queue # <<>>
    /\ after_queue' = Tail(after_queue)
    /\ IF Head(after_queue) = "_processing_complete"
       THEN /\ is_processing' = FALSE
            /\ UNCHANGED dialogs
       ELSE /\ \E mode \in DialogModes : dialogs' = Append(dialogs, mode)
            /\ UNCHANGED is_processing
    /\ UNCHANGED <<threads, start_call>>
    /\ UNCHANGED <<batchVars, summaryVars, regionVars, qaVars, gridVars, validateVars,
                   configVars, hdfVars>>

\* The user closes the innermost message box.
DismissDialog ==
    /\ dialogs # <<>>
    /\ dialogs' = SubSeq(dialogs, 1, Len(dialogs) - 1)
    /\ UNCHANGED <<is_processing, threads, after_queue, start_call>>
    /\ UNCHANGED <<batchVars, summaryVars, regionVars, qaVars, gridVars, validateVars,
                   configVars, hdfVars>>

(***************************************************************************)
(* The specifications.                                                     *)
(***************************************************************************)
BatchParked ==
    /\ config = [validate_inputs |-> TRUE, enable_qa_filtering |-> FALSE,
                 enable_clipping |-> FALSE, shapefile_path |-> FALSE,
                 export_netcdf |-> FALSE, export_geotiff |-> TRUE]
    /\ geometries = FALSE
    /\ filepaths = <<>>
    /\ has_callback = FALSE
    /\ pc = "parked"
    /\ i = 0
    /\ result = NoResult
    /\ results = <<>>
    /\ bounds = NoBounds
    /\ reprojected_ds = None
    /\ steps = <<>>
    /\ progress = <<>>
    /\ batch_calls = <<>>
    /\ faulted = None
    /\ crashed = FALSE
    /\ loader = NewLoader
    /\ red_subset = NoArray
    /\ qa_data = NoArray
    /\ overlap = None

SummaryParked == sum_results = <<>> /\ summary = NoSummary

QaParked ==
    /\ enabled_filters = NoFilters
    /\ custom_flags = NoCustomFlags
    /\ qpc = "parked"
    /\ qa_arg = NoArray
    /\ data_arg = NoArray
    /\ masked = NoArray
    /\ applied = NotApplied
    /\ qa_call = NoCall

GridParked ==
    /\ gpc = "parked"
    /\ reproject_args = NoArgs
    /\ polygons = NoPolygons
    /\ result_ds = NoDataset
    /\ interpolated = NoArray
    /\ overlap_result = FALSE
    /\ clipped_ds = NoDataset

RegionParked ==
    /\ lat_grid = NoGrid
    /\ lon_grid = NoGrid
    /\ target = ConfigTarget
    /\ scale_factor = DefaultScaleFactor
    /\ rpc = "parked"
    /\ found = NoBounds
    /\ red_shape = <<0, 0>>
    /\ subset = NoSubset

ValidateParked ==
    /\ vpc = "parked"
    /\ validate_args = NoValidateArgs
    /\ validation_results = NotValidated

ConfigParked == processor = NoProcessor /\ file_run = NoRun

HdfParked ==
    /\ hpc = "parked"
    /\ hdf_args = NoHdfArgs
    /\ worker_result = NoWorker
    /\ hdf_out = NoOutcome
    /\ hdf_calls = <<>>

UiParked ==
    /\ is_processing = FALSE
    /\ threads = <<>>
    /\ after_queue = <<>>
    /\ dialogs = <<>>
    /\ start_call = NoStart

DeskParked == HdfParked /\ UiParked

MoreParked == ValidateParked /\ ConfigParked /\ DeskParked

\* A BatchProcessor constructed from any configuration, about to run
\* process_batch on any list of at most MaxFiles paths.
Init ==
    /\ config \in ProcessingConfig
    /\ geometries = InitGeometries(config)
    /\ filepaths \in PathLists
    /\ has_callback \in BOOLEAN
    /\ pc = "loop"
    /\ i = 0
    /\ result = NoResult
    /\ results = <<>>
    /\ bounds = NoBounds
    /\ reprojected_ds = None
    /\ steps = <<>>
    /\ progress = <<>>
    /\ batch_calls = <<>>
    /\ faulted = None
    /\ crashed = FALSE
    /\ loader = NewLoader
    /\ red_subset = NoArray
    /\ qa_data = NoArray
    /\ overlap = None
    /\ SummaryParked
    /\ RegionParked
    /\ QaParked
    /\ GridParked
    /\ MoreParked

Next ==
    \/ NextFile
    \/ Loading
    \/ RegionSearch
    \/ SubsetExtraction
    \/ FineGridBuild
    \/ QualityFilter
    \/ Reprojection
    \/ Clipping
    \/ Export
    \/ FinishFile
    \/ ReturnResults

Spec == Init /\ [][Next]_vars

InitSummary ==
    /\ sum_results \in SeqsUpTo(ResultValues, MaxResults)
    /\ summary = NoSummary
    /\ BatchParked
    /\ RegionParked
    /\ QaParked
    /\ GridParked
    /\ MoreParked

NextSummary == Summarize

SpecSummary == InitSummary /\ [][NextSummary]_vars

InitRegion ==
    /\ \E g \in CoordGrids : lat_grid = LatOf(g) /\ lon_grid = LonOf(g)
    /\ target \in Targets
    /\ scale_factor \in ScaleFactors
    /\ rpc = "start"
    /\ found = NoBounds
    /\ red_shape = <<0, 0>>
    /\ subset = NoSubset
    /\ BatchParked
    /\ SummaryParked
    /\ QaParked
    /\ GridParked
    /\ MoreParked

NextRegion == FindRegion \/ ExtractSubset

SpecRegion == InitRegion /\ [][NextRegion]_vars

\* A fresh QAFilter, configured by any calls and then asked for a mask or to
\* filter.
InitQA ==
    /\ enabled_filters = NoFilters
    /\ custom_flags = NoCustomFlags
    /\ qpc = "setup"
    /\ qa_arg = NoArray
    /\ data_arg = NoArray
    /\ masked = NoArray
    /\ applied = NotApplied
    /\ qa_call = NoCall
    /\ BatchParked
    /\ SummaryParked
    /\ RegionParked
    /\ GridParked
    /\ MoreParked

NextQA == AddFilter \/ AddCustomFlag \/ ClearFilters \/ CreateQualityMask \/ ApplyQaFilter

SpecQA == InitQA /\ [][NextQA]_vars

\* A Reprojector about to reproject any fine grid, and a fresh Clipper.
InitGrid ==
    /\ gpc = "start"
    /\ reproject_args \in ReprojectArgs
    /\ polygons = NoPolygons
    /\ result_ds = NoDataset
    /\ interpolated = NoArray
    /\ overlap_result = FALSE
    /\ clipped_ds = NoDataset
    /\ BatchParked
    /\ SummaryParked
    /\ RegionParked
    /\ QaParked
    /\ MoreParked

NextGrid == Reproject \/ LoadShapefile \/ CheckOverlap \/ ClipDataset

SpecGrid == InitGrid /\ [][NextGrid]_vars

\* A BatchProcessor about to validate any list of paths.
InitValidate ==
    /\ vpc = "start"
    /\ validate_args \in ValidateArgs
    /\ validation_results = NotValidated
    /\ BatchParked
    /\ SummaryParked
    /\ RegionParked
    /\ QaParked
    /\ GridParked
    /\ ConfigParked
    /\ DeskParked

NextValidate == ValidateInputs

SpecValidate == InitValidate /\ [][NextValidate]_vars

\* A BatchProcessor constructed from any configuration, its shapefile, if
\* any, loaded.
InitConfig ==
    /\ \E cfg \in Configs : processor = NewProcessor(cfg)
    /\ file_run = NoRun
    /\ BatchParked
    /\ SummaryParked
    /\ RegionParked
    /\ QaParked
    /\ GridParked
    /\ ValidateParked
    /\ DeskParked

NextConfig == UpdateConfig \/ ProcessFile

SpecConfig == InitConfig /\ [][NextConfig]_vars

\* A MISRProcessingAdapter about to run process_batch on any list of at most
\* MaxFiles paths, with or without a progress callback.
InitAdapter ==
    /\ hpc = "start"
    /\ hdf_args \in HdfArgs
    /\ worker_result = NoWorker
    /\ hdf_out = NoOutcome
    /\ hdf_calls = <<>>
    /\ BatchParked
    /\ SummaryParked
    /\ RegionParked
    /\ QaParked
    /\ GridParked
    /\ ValidateParked
    /\ ConfigParked
    /\ UiParked

NextAdapter == AdapterStart \/ WorkerMain \/ SubprocessRaises \/ AdapterParse

SpecAdapter == InitAdapter /\ [][NextAdapter]_vars

\* The main window after construction: nothing is being processed.
InitUI ==
    /\ is_processing = FALSE
    /\ threads = <<>>
    /\ after_queue = <<>>
    /\ dialogs = <<>>
    /\ start_call = NoStart
    /\ BatchParked
    /\ SummaryParked
    /\ RegionParked
    /\ QaParked
    /\ GridParked
    /\ ValidateParked
    /\ ConfigParked
    /\ HdfParked

NextUI ==
    \/ StartProcessing
    \/ ProcessBatchEnds
    \/ ProcessFilesFinally
    \/ HandleAfter
    \/ DismissDialog

SpecUI == InitUI /\ [][NextUI]_vars

\* The worker thread, once process_batch has ended, runs on to the end of
\* _process_files; the Tk main loop keeps running the callbacks scheduled
\* with root.after; a message box that holds the main loop is dismissed.
SpecUIFair ==
    /\ SpecUI
    /\ WF_vars(ProcessFilesFinally)
    /\ WF_vars(HandleAfter)
    /\ WF_vars(DismissDialog)

(***************************************************************************)
(* Properties of process_batch and process_single_file (Spec).             *)
(***************************************************************************)
\* C1: process_batch returns, for every list of paths and whatever files
\* failed, a list of exactly as many results as paths, the k-th result being
\* that of the k-th path: nothing is dropped, duplicated or reordered.
C1_OneResultPerInput ==
    /\ pc # "crashed"
    /\ pc = "returned" =>
         /\ Len(results) = Len(filepaths)
         /\ \A k \in 1..Len(filepaths) : results[k].input_file = filepaths[k]

\* A batch of two files has returned, the first failed and the second succeeded.
C1_Witness ==
    /\ pc = "returned"
    /\ Len(filepaths) = 2
    /\ ~results[1].success
    /\ results[2].success

IsFailedResult(r) == ~r.success /\ r.error_message \notin {None, ""}

\* C2: once a step of the current file raised or returned a domain-empty
\* result, the file is Failed with success false and a non-empty error
\* message, no exception leaves process_single_file or process_batch, and
\* from Failed the batch moves on to the next index with the result appended.
C2_FaultIsolated ==
    /\ [](/\ ~crashed
          /\ pc # "crashed"
          /\ faulted # None =>
               \/ pc = "Failed" /\ IsFailedResult(result)
               \/ /\ pc \in {"loop", "returned"}
                  /\ Len(results) = i
                  /\ IsFailedResult(results[i])
                  /\ results[i].input_file = filepaths[i])
    /\ [][pc = "Failed" =>
            /\ pc' = "loop"
            /\ i' = i + 1
            /\ results' = Append(results, result)]_vars

\* The first file failed for want of data in the target region and the second
\* file has been processed to the end.
C2_Witness ==
    /\ pc = "Done"
    /\ i = 1
    /\ results[1].error_message = "Processing failed: No data found in target region"
    /\ ~results[1].success

\* The pipeline steps in their order.
Order == <<"Loading", "RegionSearch", "SubsetExtraction", "FineGridBuild",
           "QualityFilter", "Reprojection", "Clipping", "Export", "Done">>
Pos(step) == CHOOSE k \in 1..Len(Order) : Order[k] = step
NotFailed(step) == step # "Failed"

\* The steps entered follow the order, from Loading on, leaving out only
\* steps of the set skippable; nothing follows Failed or Done; Export is
\* entered only with a reprojected grid at hand.
StepsInOrder(skippable) ==
    LET t == SelectSeq(steps, NotFailed)
    IN  /\ \A k \in 1..(Len(steps) - 1) : steps[k] \notin {"Failed", "Done"}
        /\ t # <<>> => t[1] = "Loading"
        /\ \A k \in 1..(Len(t) - 1) :
             /\ Pos(t[k]) < Pos(t[k + 1])
             /\ \A j \in (Pos(t[k]) + 1)..(Pos(t[k + 1]) - 1) : Order[j] \in skippable
        /\ ("Export" \in Range(steps) /\ pc \in {"Done", "Failed"}) =>
             reprojected_ds \in {"grid", "clipped"}
        /\ pc = "Export" => reprojected_ds \in {"grid", "clipped"}

SkippedWhenDisabled ==
    (IF ~config.enable_qa_filtering THEN {"QualityFilter"} ELSE {})
    \cup (IF ~config.enable_clipping THEN {"Clipping"} ELSE {})

SkippedWhenDisabledOrNoGeometries ==
    (IF ~config.enable_qa_filtering THEN {"QualityFilter"} ELSE {})
    \cup (IF ~config.enable_clipping \/ ~geometries THEN {"Clipping"} ELSE {})

\* C3 as stated: a bracketed step is left out only when its feature is
\* disabled in the configuration.
C3_Original == StepsInOrder(SkippedWhenDisabled)

\* C3, amended: the steps of a file run in the fixed order; QualityFilter is
\* left out only when quality filtering is disabled, Clipping only when
\* clipping is disabled or no polygon geometries are loaded; Export needs a
\* reprojected grid; nothing runs after Failed.
C3_StepOrder == StepsInOrder(SkippedWhenDisabledOrNoGeometries)

\* A file went through every step, both optional ones included.
C3_Witness == pc = "Done" /\ steps = Order

\* C4: the fractions process_single_file reports for a file never decrease
\* and lie in [0, 1] (0..10 tenths), on the success path and on every
\* failure path.
C4_ProgressMonotone ==
    /\ \A k \in 1..Len(progress) : 0 <= progress[k] /\ progress[k] <= 10
    /\ \A k \in 1..(Len(progress) - 1) : progress[k] <= progress[k + 1]

\* A file failed in clipping, after seven reports, and reported the error.
C4_Witness ==
    /\ pc = "Failed"
    /\ faulted = "clip_xarray_dataset"
    /\ Len(progress) >= 7

\* fraction >= idx/n, fraction < (idx+1)/n, fraction <= (idx+1)/n
AtLeastSlotStart(f, idx, n) == idx * f.den <= f.num * n
BelowSlotEnd(f, idx, n) == f.num * n < (idx + 1) * f.den
AtMostSlotEnd(f, idx, n) == f.num * n <= (idx + 1) * f.den

CarriesIndexAndTotal(c) ==
    c.call.current = c.during + 1 /\ c.call.total = Len(filepaths)

\* C5 as stated: every fraction forwarded while file i is processed lies in
\* the half-open slot [i/N, (i+1)/N).
C5_Original ==
    \A k \in 1..Len(batch_calls) :
        LET c == batch_calls[k]
        IN  /\ AtLeastSlotStart(c.call.fraction, c.during, Len(filepaths))
            /\ BelowSlotEnd(c.call.fraction, c.during, Len(filepaths))
            /\ CarriesIndexAndTotal(c)

\* C5, amended: every fraction forwarded while file i is processed lies in
\* the closed slot [i/N, (i+1)/N]; the reports of a file that another report
\* of the same file follows lie in [i/N, (i+1)/N); each call carries i+1 and N.
C5_BatchSlot ==
    \A k \in 1..Len(batch_calls) :
        LET c == batch_calls[k]
        IN  /\ AtLeastSlotStart(c.call.fraction, c.during, Len(filepaths))
            /\ AtMostSlotEnd(c.call.fraction, c.during, Len(filepaths))
            /\ (k < Len(batch_calls) /\ batch_calls[k + 1].during = c.during) =>
                 BelowSlotEnd(c.call.fraction, c.during, Len(filepaths))
            /\ CarriesIndexAndTotal(c)

\* The first of two files has reported its completion: the fraction is 1/2.
C5_Witness ==
    /\ Len(filepaths) = 2
    /\ pc = "Done"
    /\ i = 0
    /\ batch_calls # <<>>
    /\ batch_calls[Len(batch_calls)].call.fraction.num * 2 =
         batch_calls[Len(batch_calls)].call.fraction.den

\* fraction f is at most fraction g
FractionLe(f, g) == f.num * g.den <= g.num * f.den

\* C27: over a whole process_batch call on N >= 1 files, failing files
\* included, the fractions delivered to the batch-level callback never
\* decrease and lie in [0, 1]; the current-index argument starts at 1, never
\* decreases and never skips a value; and once the batch has returned the
\* last fraction is 1.0 and the indices delivered are exactly 1..N.
C27_BatchProgressMonotone ==
    LET n == Len(batch_calls)
        call(k) == batch_calls[k].call
    IN  (has_callback /\ Len(filepaths) >= 1) =>
          /\ \A k \in 1..n :
                /\ 0 <= call(k).fraction.num
                /\ call(k).fraction.num <= call(k).fraction.den
                /\ call(k).current \in 1..Len(filepaths)
          /\ \A k \in 1..(n - 1) :
                /\ FractionLe(call(k).fraction, call(k + 1).fraction)
                /\ call(k + 1).current \in {call(k).current, call(k).current + 1}
          /\ n >= 1 => call(1).current = 1
          /\ pc = "returned" =>
                /\ n >= 1
                /\ call(n).fraction.num = call(n).fraction.den
                /\ {call(k).current : k \in 1..n} = 1..Len(filepaths)

\* A batch of two files returned; the first file failed, the second succeeded.
C27_Witness ==
    /\ pc = "returned"
    /\ has_callback
    /\ Len(filepaths) = 2
    /\ Len(results) = 2
    /\ ~results[1].success
    /\ results[2].success

EnabledFormats(cfg) ==
    (IF cfg.export_netcdf THEN {"netcdf"} ELSE {})
    \cup (IF cfg.export_geotiff THEN {"geotiff"} ELSE {})

ResultConsistent(r) ==
    /\ ~r.success => r.output_files = {} /\ r.error_message # None
    /\ r.success =>
         /\ r.error_message = None
         /\ {o[1] : o \in r.output_files} = EnabledFormats(config)
         /\ Cardinality(r.output_files) = Cardinality(EnabledFormats(config))

\* C6: every result process_single_file returns, and so every element of the
\* batch's list, is consistent: a failed one has no output file and an error
\* message; a successful one has no error message and exactly one output
\* path per enabled export format.
C6_ResultConsistent ==
    /\ \A k \in 1..Len(results) : ResultConsistent(results[k])
    /\ pc \in {"Done", "Failed"} => ResultConsistent(result)

\* A file failed in the GeoTIFF export after its NetCDF export was written.
C6_Witness ==
    /\ config.export_netcdf
    /\ results # <<>>
    /\ results[1].error_message = "Processing failed: Cannot export GeoTIFF"

(***************************************************************************)
(* Properties of get_processing_summary (SpecSummary).                     *)
(***************************************************************************)
RECURSIVE SumOver(_, _)
\* The sum of f over the finite set S.
SumOver(f, S) ==
    IF S = {} THEN 0
    ELSE LET x == CHOOSE y \in S : TRUE IN f[x] + SumOver(f, S \ {x})

FailedAt(rs) == {k \in DOMAIN rs : ~rs[k].success}

\* C7: for every result list, the empty one included, get_processing_summary
\* returns without raising; total_files is the length of the list;
\* successful + failed = total_files; success rate and average time are 0 for
\* the empty list; and when results failed, error_summary maps each distinct
\* error message of the failed results to the number of failed results
\* carrying it, so that its counts add up to the failed count.
C7_Summary ==
    summary # NoSummary =>
        /\ summary.success_rate.den # 0
        /\ summary.average_processing_time.den # 0
        /\ summary.total_files = Len(sum_results)
        /\ summary.successful + summary.failed = summary.total_files
        /\ summary.failed = Cardinality(FailedAt(sum_results))
        /\ sum_results = <<>> =>
             /\ IsZero(summary.success_rate)
             /\ IsZero(summary.average_processing_time)
             /\ summary.successful = 0
             /\ summary.failed = 0
        /\ FailedAt(sum_results) # {} =>
             /\ "error_summary" \in DOMAIN summary
             /\ DOMAIN summary.error_summary =
                  {sum_results[k].error_message : k \in FailedAt(sum_results)}
             /\ \A m \in DOMAIN summary.error_summary :
                  summary.error_summary[m] =
                    Cardinality({k \in FailedAt(sum_results) :
                                    sum_results[k].error_message = m})
             /\ SumOver(summary.error_summary, DOMAIN summary.error_summary) =
                  summary.failed

\* Three results were summarised, all failed, under two distinct messages.
C7_Witness ==
    /\ summary # NoSummary
    /\ summary.failed = 3
    /\ "error_summary" \in DOMAIN summary
    /\ Cardinality(DOMAIN summary.error_summary) = 2

(***************************************************************************)
(* Properties of find_region_bounds and extract_subset (SpecRegion).       *)
(***************************************************************************)
Abs(x) == IF x < 0 THEN 0 - x ELSE x

\* The cells with |lat - target lat| <= margin and |lon - target lon| <= margin;
\* a NaN coordinate never qualifies.
Qualifying ==
    {rc \in Cells(lat_grid.rows, lat_grid.cols) :
        /\ lat_grid.at[rc] # NaN
        /\ lon_grid.at[rc] # NaN
        /\ Abs(lat_grid.at[rc] - target.lat) <= target.margin
        /\ Abs(lon_grid.at[rc] - target.lon) <= target.margin}

SearchDone == rpc \in {"found", "extracted"}

\* C8: find_region_bounds returns nothing exactly when no cell qualifies;
\* otherwise the rectangle it returns contains every qualifying cell and each
\* of its four edges holds a qualifying cell.
C8_RegionBounds ==
    SearchDone =>
        /\ found = NoBounds <=> Qualifying = {}
        /\ found # NoBounds =>
             /\ Len(found) = 4
             /\ \A rc \in Qualifying :
                  /\ found[1] <= rc[1] /\ rc[1] <= found[2]
                  /\ found[3] <= rc[2] /\ rc[2] <= found[4]
             /\ \E rc \in Qualifying : rc[1] = found[1]
             /\ \E rc \in Qualifying : rc[1] = found[2]
             /\ \E rc \in Qualifying : rc[2] = found[3]
             /\ \E rc \in Qualifying : rc[2] = found[4]

\* Bounds were found whose rectangle holds a cell that does not qualify.
C8_Witness ==
    /\ SearchDone
    /\ found # NoBounds
    /\ \E rc \in Cells(lat_grid.rows, lat_grid.cols) :
         /\ rc \notin Qualifying
         /\ found[1] <= rc[1] /\ rc[1] <= found[2]
         /\ found[3] <= rc[2] /\ rc[2] <= found[4]

\* The margin window covers the grid's envelope: the grid has latitudes and
\* longitudes that are numbers, and every one of them lies in the window.
WindowCoversGrid ==
    /\ \E rc \in Cells(lat_grid.rows, lat_grid.cols) : lat_grid.at[rc] # NaN
    /\ \E rc \in Cells(lat_grid.rows, lat_grid.cols) : lon_grid.at[rc] # NaN
    /\ \A rc \in Cells(lat_grid.rows, lat_grid.cols) :
         /\ lat_grid.at[rc] # NaN => Abs(lat_grid.at[rc] - target.lat) <= target.margin
         /\ lon_grid.at[rc] # NaN => Abs(lon_grid.at[rc] - target.lon) <= target.margin

FullExtent == <<0, lat_grid.rows - 1, 0, lat_grid.cols - 1>>

HasCoordinates(rc) == lat_grid.at[rc] # NaN /\ lon_grid.at[rc] # NaN

\* The first and last row and the first and last column each hold a cell
\* whose latitude and longitude are both numbers.
BordersHaveCoordinates ==
    /\ \E rc \in Cells(lat_grid.rows, lat_grid.cols) : rc[1] = 0 /\ HasCoordinates(rc)
    /\ \E rc \in Cells(lat_grid.rows, lat_grid.cols) :
         rc[1] = lat_grid.rows - 1 /\ HasCoordinates(rc)
    /\ \E rc \in Cells(lat_grid.rows, lat_grid.cols) : rc[2] = 0 /\ HasCoordinates(rc)
    /\ \E rc \in Cells(lat_grid.rows, lat_grid.cols) :
         rc[2] = lat_grid.cols - 1 /\ HasCoordinates(rc)

\* C9 as stated: for every grid whose envelope the margin window covers,
\* find_region_bounds returns the full extent (0, R-1, 0, C-1).
C9_Original == (SearchDone /\ WindowCoversGrid) => found = FullExtent

\* C9, amended: for a grid whose latitude/longitude envelope the margin
\* window covers,
\* find_region_bounds returns the full extent (0, R-1, 0, C-1) exactly when
\* the first and last row and the first and last column each hold a cell
\* with a latitude and a longitude that are not NaN (so for every non-empty
\* grid without NaN).
C9_FullExtent ==
    (SearchDone /\ WindowCoversGrid) => (found = FullExtent <=> BordersHaveCoordinates)

\* The window covers a 2 x 2 grid holding a NaN cell, and the full extent
\* was returned.
C9_Witness ==
    /\ SearchDone
    /\ WindowCoversGrid
    /\ lat_grid.rows = 2
    /\ lat_grid.cols = 2
    /\ \E rc \in Cells(2, 2) : ~HasCoordinates(rc)
    /\ found = FullExtent

\* The indices a[lo:hi] takes of an axis of length n.
Taken(n, lo, hi) == {k \in 0..(n - 1) : lo <= k /\ k < hi}
ViewRows(v) == {v.row0 + k : k \in 0..(v.rows - 1)}
ViewCols(v) == {v.col0 + k : k \in 0..(v.cols - 1)}

\* C10: extract_subset returns the coordinate cells of rows row_min..row_max
\* and columns col_min..col_max; the value subset takes the same rows and
\* columns when the value grid has the coordinate grid's shape, and otherwise
\* rows [row_min*s, (row_max+1)*s) and columns [col_min*s, (col_max+1)*s); for
\* a value grid s times the coordinate grid in each dimension the value
\* subset's shape is s times the coordinate subset's.
C10_ExtractSubset ==
    rpc = "extracted" =>
        LET s == scale_factor
            same == red_shape = <<lat_grid.rows, lat_grid.cols>>
        IN  /\ subset.lat_subset.rows = found[2] - found[1] + 1
            /\ subset.lat_subset.cols = found[4] - found[3] + 1
            /\ subset.lon_subset.rows = subset.lat_subset.rows
            /\ subset.lon_subset.cols = subset.lat_subset.cols
            /\ \A rc \in Cells(subset.lat_subset.rows, subset.lat_subset.cols) :
                 /\ subset.lat_subset.at[rc] =
                      lat_grid.at[<<found[1] + rc[1], found[3] + rc[2]>>]
                 /\ subset.lon_subset.at[rc] =
                      lon_grid.at[<<found[1] + rc[1], found[3] + rc[2]>>]
            /\ same =>
                 /\ ViewRows(subset.red_subset) = found[1]..found[2]
                 /\ ViewCols(subset.red_subset) = found[3]..found[4]
            /\ ~same =>
                 /\ ViewRows(subset.red_subset) =
                      Taken(red_shape[1], found[1] * s, (found[2] + 1) * s)
                 /\ ViewCols(subset.red_subset) =
                      Taken(red_shape[2], found[3] * s, (found[4] + 1) * s)
            /\ red_shape = <<s * lat_grid.rows, s * lat_grid.cols>> =>
                 /\ subset.red_subset.rows = s * subset.lat_subset.rows
                 /\ subset.red_subset.cols = s * subset.lat_subset.cols

\* A value grid 64 times a 2 x 2 coordinate grid was cut to a proper subset.
C10_Witness ==
    /\ rpc = "extracted"
    /\ scale_factor = DefaultScaleFactor
    /\ lat_grid.rows = 2
    /\ lat_grid.cols = 2
    /\ red_shape = <<scale_factor * 2, scale_factor * 2>>
    /\ subset.lat_subset.rows = 1
    /\ subset.red_subset.rows = scale_factor
    /\ subset.red_subset.row0 = scale_factor

(***************************************************************************)
(* Properties of QAFilter (SpecQA).                                        *)
(***************************************************************************)
\* C11: with no flag enabled, create_quality_mask returns, for any quality
\* array, a mask of the array's shape that is True at every pixel.
C11_NoFlagsAllTrue ==
    (qpc = "masked" /\ enabled_filters = <<>>) =>
        /\ ShapeOf(masked) = ShapeOf(qa_arg)
        /\ DOMAIN masked.at = Cells(qa_arg.rows, qa_arg.cols)
        /\ \A rc \in DOMAIN masked.at : masked.at[rc] = TRUE

\* C11 happens: a mask was made with no flag enabled for an array of two
\* pixels, one of them odd.
C11_Witness ==
    /\ qpc = "masked"
    /\ enabled_filters = <<>>
    /\ Size(qa_arg) = 2
    /\ \E rc \in DOMAIN qa_arg.at : qa_arg.at[rc] % 2 = 1

\* The bit field [s, e] of q, by division and remainder.
Field(q, s, e) == (q \div (2 ^ s)) % (2 ^ (e - s + 1))

\* The definition create_quality_mask decodes an enabled flag with.
Definition(flag_name) ==
    IF flag_name \in DOMAIN QA_FLAGS THEN QA_FLAGS[flag_name] ELSE custom_flags[flag_name]

\* The field of q a definition names.
FieldOf(def, q) ==
    IF "bit" \in DOMAIN def THEN Field(q, def.bit, def.bit)
    ELSE Field(q, def.bit_range[1], def.bit_range[2])

\* Every enabled flag finds its field of q among its valid values.
Retained(q) ==
    \A flag_name \in Range(enabled_filters) :
        FieldOf(Definition(flag_name), q) \in Definition(flag_name).valid_values

\* C12: create_quality_mask retains a pixel exactly when, for every enabled
\* flag, the flag's bit field of the pixel's quality value is one of the
\* flag's valid values; a flag on bit 0 with valid value 0 retains the even
\* values and masks the odd ones.
C12_MaskIsFlagConjunction ==
    qpc = "masked" =>
        /\ ShapeOf(masked) = ShapeOf(qa_arg)
        /\ \A rc \in DOMAIN qa_arg.at : masked.at[rc] = Retained(qa_arg.at[rc])
        /\ enabled_filters = <<"cloud_detected">> =>
              \A rc \in DOMAIN qa_arg.at : masked.at[rc] = (qa_arg.at[rc] % 2 = 0)

\* C12 happens: a single-bit flag above bit 0 and the range flag are enabled,
\* and the mask retains one pixel and rejects another.
C12_Witness ==
    /\ qpc = "masked"
    /\ enabled_filters = <<"clear_sky", "retrieval_quality">>
    /\ \E rc1, rc2 \in DOMAIN masked.at : masked.at[rc1] /\ ~masked.at[rc2]

\* C13: when the quality array's element count differs from the data
\* array's, apply_qa_filter returns the data as it was given, and the
\* caller's array is unchanged, whatever flags are enabled.
C13_CountMismatchFailsOpen ==
    (qpc = "filtered" /\ Size(qa_arg) # Size(data_arg)) =>
        /\ applied.returned = data_arg
        /\ applied.data = data_arg

\* C13 happens: the counts differ, a flag is enabled that rejects a value of
\* the quality array, and the data holds a value that could have been masked.
C13_Witness ==
    /\ qpc = "filtered"
    /\ Size(qa_arg) # Size(data_arg)
    /\ enabled_filters # <<>>
    /\ \E rc \in DOMAIN qa_arg.at : ~Retained(qa_arg.at[rc])
    /\ \E rc \in DOMAIN data_arg.at : data_arg.at[rc] # NaN

\* The quality value that lies, in row-major order, where pixel rc of the
\* data lies.
QualityAt(rc) ==
    LET k == rc[1] * data_arg.cols + rc[2]
    IN  qa_arg.at[<<k \div qa_arg.cols, k % qa_arg.cols>>]

\* C14: when the element counts agree, apply_qa_filter returns an array of
\* the data's shape in which every pixel the mask rejects is NaN and every
\* other pixel has its input value, and the caller's array is unchanged.
C14_FilterMasksRejected ==
    (qpc = "filtered" /\ Size(qa_arg) = Size(data_arg)) =>
        /\ ShapeOf(applied.returned) = ShapeOf(data_arg)
        /\ DOMAIN applied.returned.at = DOMAIN data_arg.at
        /\ \A rc \in DOMAIN data_arg.at :
              applied.returned.at[rc] =
                  IF Retained(QualityAt(rc)) THEN data_arg.at[rc] ELSE NaN
        /\ applied.data = data_arg

\* C14 happens: a 2x3 quality array was reshaped onto 3x2 data, and a pixel
\* that is not in the first row or column was rejected.
C14_Witness ==
    /\ qpc = "filtered"
    /\ ShapeOf(qa_arg) = <<2, 3>>
    /\ ShapeOf(data_arg) = <<3, 2>>
    /\ applied.returned.at[<<1, 1>>] = NaN
    /\ applied.returned.at[<<0, 0>>] = data_arg.at[<<0, 0>>]

(***************************************************************************)
(* Properties of the quality step, the overlap check and the loader of     *)
(* process_single_file (Spec).                                             *)
(***************************************************************************)
\* The pixels of the current file that an enabled flag rejects.
RejectedPixels ==
    {rc \in DOMAIN qa_data.at :
        ~create_quality_mask(EnabledFilters(config), NoCustomFlags, qa_data).at[rc]}

\* C15: when quality filtering is enabled with at least one flag and the
\* file provides quality data, every pixel whose quality bits fail an enabled
\* flag is no-data in the values that reach Export.
C15_QualityMaskApplied ==
    (/\ pc = "Export"
     /\ config.enable_qa_filtering
     /\ EnabledFilters(config) # <<>>
     /\ qa_data # NoArray) =>
        \A rc \in RejectedPixels : red_subset.at[rc] = NaN

\* C18: check_overlap answers true whenever its computation fails, and a
\* file whose check failed is clipped: clip_xarray_dataset ran, and either
\* raised or marked the result clipped.
C18_FailedCheckClips ==
    /\ \A intersects \in BOOLEAN : check_overlap(TRUE, TRUE, intersects)
    /\ overlap = "check_failed" =>
          /\ "Clipping" \in Range(steps)
          /\ \/ faulted = "clip_xarray_dataset"
             \/ <<"clipped", "True">> \in result.metadata /\ reprojected_ds = "clipped"

\* C18 happens: the check failed and the file was clipped and exported.
C18_Witness ==
    /\ overlap = "check_failed"
    /\ pc = "Done"
    /\ result.success
    /\ reprojected_ds = "clipped"

\* C20: when process_single_file has returned, on success, on a domain
\* failure and on an exception alike, no dataset of the file's loader is open.
C20_LoaderReleased ==
    pc \in {"Done", "Failed", "loop", "returned"} => loader = NewLoader

\* C20 happens: the geometry, the value and the quality dataset had all been
\* opened when export raised, and the file's result is a failure.
C20_Witness ==
    /\ pc = "Failed"
    /\ faulted = "export_geotiff"
    /\ config.enable_qa_filtering
    /\ qa_data # NoArray
    /\ loader = NewLoader

\* C16: the grid clip returns has no-data at every pixel whose (lat, lon) is
\* outside all polygons, and at every pixel inside a polygon the value the
\* input grid has at that (lat, lon); every input pixel inside a polygon is
\* found in it at its own coordinate.
CoordinateIs(axis, k, x) == axis.num[k] = x * axis.den

InsidePolygons(lat, lon) ==
    \E g \in polygons :
        /\ g.lat_lo < lat /\ lat < g.lat_hi
        /\ g.lon_lo < lon /\ lon < g.lon_hi

\* The input pixels that have a value, as <<lat, lon, value>>.
InputPixels ==
    {<<result_ds.lat.num[rc[1] + 1], result_ds.lon.num[rc[2] + 1], result_ds.values.at[rc]>> :
        rc \in {q \in DOMAIN result_ds.values.at : result_ds.values.at[q] # NaN}}

ClippedHas(px) ==
    \E rc \in DOMAIN clipped_ds.values.at :
        /\ CoordinateIs(clipped_ds.lat, rc[1] + 1, px[1])
        /\ CoordinateIs(clipped_ds.lon, rc[2] + 1, px[2])
        /\ clipped_ds.values.at[rc] = px[3]

C16_ClipKeepsInsidePixels ==
    (gpc = "clipped" /\ clipped_ds.kind = "grid") =>
        /\ \A px \in InputPixels : InsidePolygons(px[1], px[2]) => ClippedHas(px)
        /\ \A rc \in DOMAIN clipped_ds.values.at :
              clipped_ds.values.at[rc] # NaN =>
                \E px \in InputPixels :
                    /\ InsidePolygons(px[1], px[2])
                    /\ CoordinateIs(clipped_ds.lat, rc[1] + 1, px[1])
                    /\ CoordinateIs(clipped_ds.lon, rc[2] + 1, px[2])
                    /\ clipped_ds.values.at[rc] = px[3]

\* C17: the grid reproject_to_wgs84 returns and the grid clip returns each
\* have an ascending latitude axis, an ascending longitude axis and values
\* of shape (len(lat), len(lon)).
Ascending(axis) == \A k \in 1..(Len(axis.num) - 1) : axis.num[k] < axis.num[k + 1]

RegularGrid(ds) ==
    /\ Ascending(ds.lat)
    /\ Ascending(ds.lon)
    /\ ds.values.rows = Len(ds.lat.num)
    /\ ds.values.cols = Len(ds.lon.num)

ReprojectedGridRegular == result_ds.kind = "grid" => RegularGrid(result_ds)

C17_GridsAscending ==
    /\ result_ds.kind = "grid" => RegularGrid(result_ds)
    /\ clipped_ds.kind = "grid" => RegularGrid(clipped_ds)

\* C19: reproject_to_wgs84 returns None, and raises nothing, when every value
\* of the subset is NaN and when the interpolated array is all NaN; whenever
\* else it does not raise, it returns a grid with a value that is not NaN.
EveryValueNaN(a) == \A rc \in DOMAIN a.at : a.at[rc] = NaN

InterpolationEmpty == interpolated # NoArray /\ EveryValueNaN(interpolated)

C19_NothingWhenNoData ==
    gpc \in {"reprojected", "loaded", "checked", "clipped"} =>
        /\ EveryValueNaN(reproject_args.red_subset) => result_ds = NoneDataset
        /\ InterpolationEmpty => result_ds = NoneDataset
        /\ (/\ ~EveryValueNaN(reproject_args.red_subset)
            /\ ~InterpolationEmpty
            /\ result_ds.kind # "raised")
           => /\ result_ds.kind = "grid"
              /\ \E rc \in DOMAIN result_ds.values.at : result_ds.values.at[rc] # NaN

\* reproject_to_wgs84 returned None because the interpolated array, made
\* from a subset with values, was all NaN.
C19_Witness ==
    /\ gpc = "reprojected"
    /\ ~EveryValueNaN(reproject_args.red_subset)
    /\ InterpolationEmpty
    /\ result_ds = NoneDataset

(***************************************************************************)
(* Properties of validate_inputs (SpecValidate).                           *)
(***************************************************************************)
\* C21: validate_inputs returns for every list of paths, whatever files are
\* unreadable or invalid: the valid paths are listed in valid_files and the
\* others in invalid_files, each once per occurrence and in input order, no
\* path in both; an unwritable output directory and clipping enabled without
\* a usable shapefile each add a warning and change no classification.
IsValidFile(p) == p \notin validate_args.invalid
IsInvalidFile(p) == p \in validate_args.invalid

InvalidPaths == [k \in DOMAIN validation_results.invalid_files |->
                    validation_results.invalid_files[k].filepath]

NoUsableShapefile ==
    validate_args.enable_clipping
    /\ (~validate_args.shapefile_path \/ ~validate_args.shapefile_valid)

C21_ValidateClassifies ==
    vpc = "returned" =>
        /\ validation_results.valid_files = SelectSeq(validate_args.filepaths, IsValidFile)
        /\ InvalidPaths = SelectSeq(validate_args.filepaths, IsInvalidFile)
        /\ Len(validation_results.valid_files) + Len(InvalidPaths)
             = Len(validate_args.filepaths)
        /\ Range(validation_results.valid_files) \cap Range(InvalidPaths) = {}
        /\ ~validate_args.writable =>
             "Output directory is not writable" \in Range(validation_results.warnings)
        /\ NoUsableShapefile =>
             \E w \in Range(validation_results.warnings) :
                 w \in {"Clipping enabled but no shapefile specified", "Invalid shapefile"}

\* A list with a valid and an invalid file was validated with the output
\* directory unwritable and clipping enabled without a usable shapefile.
C21_Witness ==
    /\ vpc = "returned"
    /\ validation_results.valid_files # <<>>
    /\ validation_results.invalid_files # <<>>
    /\ ~validate_args.writable
    /\ NoUsableShapefile
    /\ Len(validation_results.warnings) = 2

\* C22: reproject_to_wgs84 does not extrapolate: every output cell outside
\* the convex hull of the valid input points is NaN, and every cell strictly
\* inside it holds the linear interpolation of the input values at the
\* corners of a triangle of input points around it.
SourcePoints ==
    {<<reproject_args.lat_fine_grid.at[rc], reproject_args.lon_fine_grid.at[rc],
       reproject_args.red_subset.at[rc]>> :
        rc \in {q \in DOMAIN reproject_args.red_subset.at :
                  reproject_args.red_subset.at[q] # NaN}}

\* The pairs of input points with every input point on or left of their line.
HullEdges ==
    {e \in SourcePoints \X SourcePoints :
        /\ e[1][1] # e[2][1] \/ e[1][2] # e[2][2]
        /\ \A q \in SourcePoints : Cross(e[1], e[2], q) >= 0}

OutsideHull(p) == \E e \in HullEdges : Cross(e[1], e[2], p) < 0
StrictlyInsideHull(p) == \A e \in HullEdges : Cross(e[1], e[2], p) > 0

\* The (lat, lon) of an output cell: the grid starts at the least input
\* latitude and longitude and its step is the output resolution.
CellPoint(rc) ==
    <<Min({s[1] : s \in SourcePoints}) + rc[1] * Res,
      Min({s[2] : s \in SourcePoints}) + rc[2] * Res>>

\* v is the value at p of the plane through the values at a, b and c.
IsInterpolationOf(v, p, a, b, c) ==
    v * Cross(a, b, c)
      = Cross(p, b, c) * a[3] + Cross(a, p, c) * b[3] + Cross(a, b, p) * c[3]

Surrounds(p, a, b, c) ==
    /\ Cross(a, b, c) > 0
    /\ Cross(a, b, p) >= 0 /\ Cross(b, c, p) >= 0 /\ Cross(c, a, p) >= 0
    /\ ~\E q \in SourcePoints \ {a, b, c} :
          Cross(a, b, q) >= 0 /\ Cross(b, c, q) >= 0 /\ Cross(c, a, q) >= 0

C22_NoExtrapolation ==
    (gpc = "reprojected" /\ interpolated # NoArray) =>
        \A rc \in DOMAIN interpolated.at :
            /\ OutsideHull(CellPoint(rc)) => interpolated.at[rc] = NaN
            /\ StrictlyInsideHull(CellPoint(rc)) =>
                  /\ interpolated.at[rc] # NaN
                  /\ \E a, b, c \in SourcePoints :
                        /\ Surrounds(CellPoint(rc), a, b, c)
                        /\ IsInterpolationOf(interpolated.at[rc], CellPoint(rc), a, b, c)

\* An output cell strictly inside the hull that is no input point holds a
\* value none of the input points has.
C22_Witness ==
    /\ gpc = "reprojected"
    /\ interpolated # NoArray
    /\ \E rc \in DOMAIN interpolated.at :
          /\ StrictlyInsideHull(CellPoint(rc))
          /\ interpolated.at[rc] # NaN
          /\ \A s \in SourcePoints : s[3] # interpolated.at[rc]

(***************************************************************************)
(* Further properties of process_batch and process_single_file (Spec).     *)
(***************************************************************************)
\* C23: in a file's run clip_xarray_dataset is called only after
\* check_overlap returned true for the file's reprojected grid; when it
\* returned false the file goes on to Export with the unclipped grid and
\* metadata clipped = False; the exporter's file name says clipped only if
\* clip ran.
OverlapReturnedTrue == overlap \in {"intersects", "check_failed"}

\* clip_xarray_dataset returned or raised in the run of the current file.
ClipInvoked ==
    /\ pc \in {"Export", "Done", "Failed"}
    /\ reprojected_ds = "clipped" \/ faulted = "clip_xarray_dataset"

ClippedNames ==
    {Stem(result.input_file) \o "_red_275m_clipped" \o q \o ext :
        q \in {"", "_qa"}, ext \in {".nc", ".tif"}}

C23_ClipOnlyAfterOverlap ==
    /\ ClipInvoked => OverlapReturnedTrue
    /\ overlap = "disjoint" =>
          /\ pc \in {"Export", "Done", "Failed"}
          /\ pc = "Failed" => faulted \in {"export_netcdf", "export_geotiff"}
          /\ reprojected_ds = "grid"
          /\ <<"clipped", "False">> \in result.metadata
          /\ <<"clipped", "True">> \notin result.metadata
    /\ (pc = "Done" /\ \E o \in result.output_files : o[2] \in ClippedNames)
          => reprojected_ds = "clipped"

\* A file whose grid no polygon meets was exported, unclipped.
C23_Witness ==
    /\ pc = "Done"
    /\ overlap = "disjoint"
    /\ result.success
    /\ result.output_files # {}
    /\ reprojected_ds = "grid"

(***************************************************************************)
(* Properties of update_config (SpecConfig).                               *)
(***************************************************************************)
\* C24: after update_config(c) the Reprojector's target latitude, target
\* longitude, region margin and target resolution are those of c, as for a
\* processor constructed from c.
C24_ReprojectorFollowsConfig ==
    processor # NoProcessor =>
        /\ processor.reprojector.target_lat = processor.config.target_lat
        /\ processor.reprojector.target_lon = processor.config.target_lon
        /\ processor.reprojector.region_margin = processor.config.region_margin
        /\ processor.reprojector.target_resolution = processor.config.target_resolution

\* C29: a file is clipped only with the geometries of the shapefile named in
\* the configuration in force when it is processed; when that configuration
\* disables clipping or names no shapefile, the file is not clipped.
C29_NoStaleGeometries ==
    file_run.called =>
        /\ (~file_run.enable_clipping \/ file_run.shapefile_path = None)
              => file_run.clipped_with = None
        /\ file_run.clipped_with # None
              => file_run.clipped_with = file_run.shapefile_path

(***************************************************************************)
(* Further properties of QAFilter (SpecQA).                                *)
(***************************************************************************)
\* C26: create_quality_mask decodes every enabled flag, a built-in flag
\* redefined by add_custom_flag included, with the definition
\* get_available_flags reports for its name.
Catalog == get_available_flags(custom_flags)

C26_CustomOverridesBuiltin ==
    qpc = "masked" =>
        \A rc \in DOMAIN masked.at :
            masked.at[rc] =
                \A n \in Range(enabled_filters) :
                    FieldOf(Catalog[n], qa_arg.at[rc]) \in Catalog[n].valid_values

\* C28: whatever add_filter, add_custom_flag and clear_filters calls were
\* made, the enabled list has no name twice and only names of the built-in
\* or the custom catalog, in the order they were enabled; add_filter with an
\* unknown or an already enabled name leaves the list as it is, and
\* clear_filters empties it and removes no custom flag.
NoDuplicates(filters) ==
    \A j, k \in DOMAIN filters : filters[j] = filters[k] => j = k

KnownNames == DOMAIN QA_FLAGS \cup DOMAIN custom_flags

Without(filters, name) == SelectSeq(filters, LAMBDA n : n # name)

FilterCallEffect ==
    /\ qa_call'.method = "add_filter" =>
          /\ custom_flags' = custom_flags
          /\ enabled_filters' =
                IF ~qa_call'.enabled THEN Without(enabled_filters, qa_call'.flag_name)
                ELSE IF \/ qa_call'.flag_name \notin KnownNames
                        \/ qa_call'.flag_name \in Range(enabled_filters)
                     THEN enabled_filters
                     ELSE enabled_filters \o <<qa_call'.flag_name>>
    /\ qa_call'.method = "clear_filters" =>
          enabled_filters' = <<>> /\ custom_flags' = custom_flags
    /\ qa_call'.method = "add_custom_flag" =>
          /\ enabled_filters' = enabled_filters
          /\ DOMAIN custom_flags \subseteq DOMAIN custom_flags'

C28_EnabledList ==
    /\ [](NoDuplicates(enabled_filters) /\ Range(enabled_filters) \subseteq KnownNames)
    /\ [][FilterCallEffect]_vars

\* add_filter was called with an unknown name on a filter with two flags
\* enabled and a custom flag defined.
C28_Witness ==
    /\ qa_call.method = "add_filter"
    /\ qa_call.enabled
    /\ qa_call.flag_name \notin KnownNames
    /\ Len(enabled_filters) = 2
    /\ custom_flags # NoCustomFlags

(***************************************************************************)
(* Properties of MISRProcessingAdapter.process_batch (SpecAdapter).       *)
(***************************************************************************)
\* The files whose processing failed in the worker.
FailedInWorker == IF worker_result = NoWorker THEN {} ELSE worker_result.failing

\* C25: for every file list and every failure of a file or of the worker,
\* MISRProcessingAdapter.process_batch ends by returning one result per input
\* file, in input order, the failure recorded in the results of the affected
\* files; it does not raise.
C25_AdapterHonoursBatchContract ==
    hpc \in {"returned", "raised"} =>
        /\ hdf_out.kind = "returned"
        /\ Len(hdf_out.results) = Len(hdf_args.files)
        /\ \A k \in 1..Len(hdf_args.files) :
              /\ hdf_out.results[k].input_file = hdf_args.files[k]
              /\ k \in FailedInWorker =>
                    /\ ~hdf_out.results[k].success
                    /\ hdf_out.results[k].error_message # None

\* When the worker exits with code 0 the contract is kept: one result per
\* file, in order, failed files marked.
AdapterKeepsContractWhenWorkerCompletes ==
    (hpc = "returned") =>
        /\ Len(hdf_out.results) = Len(hdf_args.files)
        /\ \A k \in 1..Len(hdf_args.files) :
              /\ hdf_out.results[k].input_file = hdf_args.files[k]
              /\ hdf_out.results[k].success = (k \notin FailedInWorker)

(***************************************************************************)
(* Properties of the main window (SpecUIFair).                             *)
(***************************************************************************)
InFlight == {t \in 1..Len(threads) : threads[t].at = "process_batch"}
Running == {t \in 1..Len(threads) : threads[t].at \in {"process_batch", "finally"}}
BatchEnded == \E t \in 1..Len(threads) : threads[t].at = "finally"

====
